---------------------------- MODULE Spec2Model ----------------------------
(***************************************************************************)
(* node.it: the static-site build (scripts/generate-static.js) and the     *)
(* icon pipeline (scripts/generate-favicons.js) as state machines over a   *)
(* file system, each in the two revisions the repository holds, and the    *)
(* Express application (src/app.js, src/routes/index.js) as a state        *)
(* machine over the requests it answers.                                   *)
(*                                                                         *)
(* A path is a sequence of names below the project root (<<>>).  The file  *)
(* system fs maps every existing path to a node: a directory, or a file    *)
(* with its data, a sequence of tokens.  Every await of the scripts is one *)
(* action, and so is every middleware function called for a request.       *)
(***************************************************************************)
EXTENDS Integers, Sequences, FiniteSets, TLC

VARIABLES
    cmd,        \* the script that runs: "generate-static" | "makeicons", or the other
                \* revision of either: "generate-static-output" | "generate-favicons-error";
                \* "pages-side-by-side" for the loop bodies of the build run side by
                \* side; "app" for the Express application
    fs,         \* the file system: path -> node
    fs0,        \* the file system as the current run found it
    dirOrder,   \* directory of src/public -> the order readdir returns its names in
    pc,         \* the position of the running script
    run,        \* the number of the current invocation, from 1
    idx,        \* index into pages (the builds) or sizes (the icon scripts) of the loop
    templateStr,\* the template text readFile returned for the current page
    html,       \* the HTML ejs.render returned for the current page
    stack,      \* the copyDir activations: <<[src, dest, entries]>>, innermost last
    ops,        \* the file-system and render calls of this run, in call order
    stdout,     \* console.log lines of this run
    stderr,     \* console.error lines of this run
    err,        \* the reason the script's promise was rejected with, NoErr if none
    exitCode,   \* exit status of the finished process, -1 while it runs
    first,      \* what the first invocation left: [fs, exitCode, stdout] (<<>> before)
    builds,     \* page -> [pc, templateStr, html] where the loop bodies of the pages
                \* run side by side (<<>> where they run one after another)
    env,        \* process.env of the Express application: name -> string
    app,        \* the revisions that run: [main, router]
    req,        \* the request being handled: [method, url]
    res,        \* its response: [status, by, how, view, locals, body]
    layer,      \* index into the middleware stack of the layer to call next
    nextErr,    \* the error passed to next(), NoError if none
    trail,      \* the middleware functions called for the request, in order
    argv,       \* process.argv.slice(2) of the test script
    call        \* a call of capitalize on its own: [arg, result]

vars == <<cmd, fs, fs0, dirOrder, pc, run, idx, templateStr, html, stack, ops, stdout,
          stderr, err, exitCode, first, builds, env, app, req, res, layer, nextErr, trail,
          argv, call>>

\* the state of the Express application, which no script touches
server == <<env, app, req, res, layer, nextErr, trail>>

\* the state of the scripts, which the application does not touch
script == <<fs0, dirOrder, run, idx, templateStr, html, stack, ops, stdout, stderr, err,
            exitCode, first, builds>>

-----------------------------------------------------------------------------
(* Bounds *)

\* invocations of the command in a row
MaxRuns == 2

\* the length of the strings capitalize is tried on
MaxLen == 4

-----------------------------------------------------------------------------
(* Paths: path.join *)

\* the segments a path.join argument contributes: "" contributes none
Segs(s) == IF s = "" THEN <<>> ELSE <<s>>

PathJoin(p, s) == p \o Segs(s)

Parent(p) == SubSeq(p, 1, Len(p) - 1)

\* p and every directory above it, the root included
Ancestors(p) == {SubSeq(p, 1, k) : k \in 0..Len(p)}

IsUnder(p, d) == Len(p) >= Len(d) /\ SubSeq(p, 1, Len(d)) = d

-----------------------------------------------------------------------------
(* The file system and the fs.promises calls the scripts make *)

DirNode == [kind |-> "dir", data |-> <<>>]

FileNode(d) == [kind |-> "file", data |-> d]

\* a symbolic link to the path target
LinkNode(target) == [kind |-> "link", data |-> <<[t |-> "link", v |-> target]>>]

Exists(f, p) == p \in DOMAIN f

\* the path an open of p reaches: the target of p where p is a symbolic link
Resolve(f, p) == IF p \in DOMAIN f /\ f[p].kind = "link" THEN f[p].data[1].v ELSE p

IsDir(f, p) == p \in DOMAIN f /\ f[p].kind = "dir"

IsFile(f, p) == p \in DOMAIN f /\ f[p].kind = "file"

\* an error as the catch handler sees it: its code, the path it is about and,
\* for an ejs error, the template files ejs names in the message
Err(code, path, files) == [code |-> code, path |-> path, files |-> files]

\* fs.mkdir(p, {recursive: true}) succeeds unless p or a directory above it
\* exists as something that is not a directory
MkdirOk(f, p) == \A a \in Ancestors(p) : a \in DOMAIN f => f[a].kind = "dir"

\* Mkdir that first removes what is below p: the directory is made afresh
MkdirFresh(f, p) ==
    [q \in {r \in DOMAIN f : r = p \/ ~IsUnder(r, p)} \cup Ancestors(p) |->
        IF q \in DOMAIN f THEN f[q] ELSE DirNode]

Mkdir(f, p) ==
    [q \in DOMAIN f \cup Ancestors(p) |-> IF q \in DOMAIN f THEN f[q] ELSE DirNode]

\* WriteFile with flag "a": the data is added to what the file holds
WriteFileAppend(f, p, d) ==
    [q \in DOMAIN f \cup {p} |->
        IF q = p THEN FileNode((IF p \in DOMAIN f THEN f[p].data ELSE <<>>) \o d) ELSE f[q]]

\* fs.writeFile(p, data): flag "w", the file is created or truncated
WriteFileOk(f, p) == IsDir(f, Parent(p)) /\ ~IsDir(f, p)

WriteFile(f, p, d) ==
    [q \in DOMAIN f \cup {p} |-> IF q = p THEN FileNode(d) ELSE f[q]]

\* fs.readFile(p, "utf8")
ReadFileOk(f, p) == IsFile(f, p)

ReadFile(f, p) == f[p].data

\* fs.readdir(p, {withFileTypes: true}): the names directly below p
Children(f, p) == {q[Len(q)] : q \in {r \in DOMAIN f : Len(r) = Len(p) + 1 /\ Parent(r) = p}}

ReaddirOk(f, p) == IsDir(f, p)

\* CopyFile that leaves a destination that is already there alone
CopyFileKeep(f, s, d) ==
    [q \in DOMAIN f \cup {d} |->
        IF q = d /\ d \notin DOMAIN f THEN FileNode(f[Resolve(f, s)].data) ELSE f[q]]

\* fs.copyFile(s, d): d is created or overwritten with the bytes s opens to
CopyFileOk(f, s, d) == IsFile(f, Resolve(f, s)) /\ IsDir(f, Parent(d)) /\ ~IsDir(f, d)

CopyFile(f, s, d) == WriteFile(f, d, f[Resolve(f, s)].data)

\* every order a set of names may be listed in
Orders(S) == {o \in [1..Cardinality(S) -> S] : \A a, b \in 1..Cardinality(S) : a # b => o[a] # o[b]}

\* readdir returns the names of a directory in an order the operating system
\* chooses, the same for a directory that has not changed: every assignment
\* of an order to the directories of f at or below d
DirOrders(f, d) ==
    LET D == {p \in DOMAIN f : f[p].kind = "dir" /\ IsUnder(p, d)}
    IN {o \in [D -> UNION {Orders(Children(f, p)) : p \in D}] :
            \A p \in D : o[p] \in Orders(Children(f, p))}

Readdir(order, p) == order[p]

-----------------------------------------------------------------------------
(* Strings and templates *)

\* A string is a sequence of chunks; a character that HTML escapes is a chunk
\* of its own.
Str(s) == <<s>>

\* ejs escapeXML, applied by <%= %>
EscapeChar(c) ==
    CASE c = "&" -> "&amp;"
      [] c = "<" -> "&lt;"
      [] c = ">" -> "&gt;"
      [] c = "\"" -> "&#34;"
      [] c = "'" -> "&#39;"
      [] OTHER -> c

EscapeXML(s) == [k \in 1..Len(s) |-> EscapeChar(s[k])]

\* template segments
Text(s) == [t |-> "text", v |-> <<s>>]          \* literal markup

Var(path) == [t |-> "var", v |-> path]          \* <%= a %> or <%= a.b %>

Href(var, path) == [t |-> "href", v |-> <<var, path>>]  \* href="<%= var %>path"; var "" is a literal href

Include(file) == [t |-> "include", v |-> file]  \* <%- include('partials/x') %>

Each(path) == [t |-> "each", v |-> path]        \* <% a.b.forEach(function(item) { %><li><%= item %></li><% }); %>

\* <% if (guard && obj.stack) { %><pre><%= obj.stack %></pre><% } %>; guard "" is
\* a condition of obj.stack alone
IfStack(guard, obj) == [t |-> "ifstack", v |-> <<guard, obj>>]

\* src/views/*.ejs
PageOpen == Text("<!DOCTYPE html><html>")

PageClose == Text("</body></html>")

PageEjs(main) ==
    <<PageOpen, Include(<<"partials", "head.ejs">>), Text("<body>"),
      Include(<<"partials", "header.ejs">>), Include(<<"partials", "nav.ejs">>)>>
    \o main \o <<Include(<<"partials", "footer.ejs">>), PageClose>>

IndexEjs == PageEjs(<<Text("<main><h1>Welcome</h1></main>")>>)

AboutEjs == PageEjs(<<Text("<main><h1>About Us</h1></main>")>>)

ContactEjs == PageEjs(<<Text("<main><h1>Contact Us</h1></main>")>>)

\* profile.ejs as it was first: a page of its own, with no partial
ProfileKeysEjs ==
    <<Text("<!DOCTYPE html><html><head><title>"), Var(<<"user", "name">>),
      Text("'s Profile</title></head><body><h1>"), Var(<<"user", "name">>),
      Text("'s Profile</h1><p>ID: "), Var(<<"user", "id">>), Text("</p><h2>Keys</h2><ul>"),
      Each(<<"user", "key">>), Text("</ul>"), PageClose>>

\* profile.ejs as it was before the first name was added: the heading is
\* the full name
ProfileNameEjs ==
    PageEjs(<<Text("<main><h1>"), Var(<<"user", "name">>), Text("'s Profile</h1><p>ID: "),
              Var(<<"user", "id">>), Text("</p><h2>Hobbies</h2><ul>"),
              Each(<<"user", "key">>), Text("</ul></main>")>>)

\* profile.ejs: the heading is the first name, the full name follows
ProfileEjs ==
    <<Text("<!DOCTYPE html PUBLIC \"-//W3C//DTD XHTML 1.0 Transitional//EN\"><html>"),
      Include(<<"partials", "head.ejs">>), Text("<body>"),
      Include(<<"partials", "header.ejs">>), Include(<<"partials", "nav.ejs">>),
      Text("<main><h1>"), Var(<<"user", "firstname">>),
      Text("'s Profile</h1><p>Full Name: "), Var(<<"user", "name">>),
      Text("</p><p>ID: "), Var(<<"user", "id">>), Text("</p><h2>Hobbies</h2><ul>"),
      Each(<<"user", "key">>), Text("</ul></main>"),
      Include(<<"partials", "footer.ejs">>), PageClose>>

\* about.ejs written from profile.ejs: it reads user, which only the profile
\* entry of the manifest carries
AboutUserEjs ==
    PageEjs(<<Text("<main><h1>About "), Var(<<"user", "name">>), Text("</h1></main>")>>)

\* src/views/partials/*.ejs
HeaderEjs == <<Text("<header><h1>My Website</h1></header>")>>

FooterEjs == <<Text("<footer><p>&copy; 2025 My Website</p></footer>")>>

NavLinks == <<"/", "/about", "/contact", "/profile">>

HeadLinks == <<"/styles/style.css", "/icons/temp/favicon-32.png",
               "/icons/temp/apple-touch-icon.png", "/icons/temp/icon-192.png">>

AssetLinks == <<"/public/styles/style.css", "/public/icons/favicon-32.png",
                "/public/icons/apple-touch-icon.png", "/public/icons/icon-192.png">>

\* head.ejs and nav.ejs with root-relative URLs
HeadEjs ==
    <<Text("<head><title>"), Var(<<"title">>), Text("</title>")>>
    \o [k \in 1..Len(HeadLinks) |-> Href("", HeadLinks[k])] \o <<Text("</head>")>>

NavEjs ==
    <<Text("<nav>")>> \o [k \in 1..Len(NavLinks) |-> Href("", NavLinks[k])] \o <<Text("</nav>")>>

\* head.ejs and nav.ejs with every URL behind <%= basePath %>
HeadBasePathEjs ==
    <<Text("<head><title>"), Var(<<"title">>), Text("</title>")>>
    \o [k \in 1..Len(AssetLinks) |-> Href("basePath", AssetLinks[k])] \o <<Text("</head>")>>

NavBasePathEjs ==
    <<Text("<nav>")>> \o [k \in 1..Len(NavLinks) |-> Href("basePath", NavLinks[k])]
    \o <<Text("</nav>")>>

-----------------------------------------------------------------------------
(* ejs.render *)

NoErr == Err("", <<>>, <<>>)

\* the name ejs puts in an error message for a template without a filename
NoFilename == <<"ejs">>

\* ejs rethrow: the message is prefixed with the template's file name
Rethrow(r, filename) ==
    [ok |-> FALSE, html |-> <<>>, err |-> [r.err EXCEPT !.files = <<filename>> \o @]]

Throw(code, path) == [ok |-> FALSE, html |-> <<>>, err |-> Err(code, path, <<>>)]

\* the value of <%= a %> or <%= a.b %>; a missing property is undefined and
\* renders as the empty string
Value(data, path) ==
    IF Len(path) = 1 THEN data[path[1]]
    ELSE IF path[2] \in DOMAIN data[path[1]] THEN data[path[1]][path[2]] ELSE <<>>

\* include('partials/x') is resolved against the directory of the including file
IncludePath(filename, file) == Parent(filename) \o file

RECURSIVE RenderFrom(_, _, _, _, _, _)
\* the segments of tpl from k on, rendered after out; the first segment that
\* throws ends the rendering
RenderFrom(f, tpl, data, filename, k, out) ==
    IF k > Len(tpl) THEN [ok |-> TRUE, html |-> out, err |-> NoErr]
    ELSE LET seg == tpl[k]
             next(tokens) == RenderFrom(f, tpl, data, filename, k + 1, out \o tokens)
             undefined(name) == Rethrow(Throw("ReferenceError", <<name>>), filename)
         IN CASE seg.t = "text" -> next(<<seg>>)
              [] seg.t = "var" ->
                    IF seg.v[1] \in DOMAIN data
                    THEN next(<<[t |-> "text", v |-> EscapeXML(Value(data, seg.v))]>>)
                    ELSE undefined(seg.v[1])
              [] seg.t = "href" ->
                    IF seg.v[1] = "" THEN next(<<[t |-> "href", v |-> <<seg.v[2]>>]>>)
                    ELSE IF seg.v[1] \in DOMAIN data
                    THEN next(<<[t |-> "href",
                                 v |-> EscapeXML(Value(data, <<seg.v[1]>>)) \o <<seg.v[2]>>]>>)
                    ELSE undefined(seg.v[1])
              [] seg.t = "each" ->
                    IF seg.v[1] \in DOMAIN data
                    THEN LET items == Value(data, seg.v)
                         IN next([j \in 1..Len(items) |-> [t |-> "li", v |-> EscapeXML(items[j])]])
                    ELSE undefined(seg.v[1])
              [] seg.t = "ifstack" ->
                    LET guard == seg.v[1]
                        obj == seg.v[2]
                    IN IF guard # "" /\ guard \notin DOMAIN data THEN undefined(guard)
                       ELSE IF guard # "" /\ ~data[guard] THEN next(<<>>)
                       ELSE IF obj \notin DOMAIN data THEN undefined(obj)
                       ELSE IF "stack" \in DOMAIN data[obj]
                       THEN next(<<[t |-> "pre", v |-> EscapeXML(data[obj].stack)]>>)
                       ELSE next(<<>>)
              [] seg.t = "include" ->
                    LET file == IncludePath(filename, seg.v)
                    IN IF filename = NoFilename \/ ~IsFile(f, file)
                       THEN Rethrow(Throw("ENOENT", file), filename)
                       ELSE LET r == RenderFrom(f, ReadFile(f, file), data, file, 1, <<>>)
                            IN IF r.ok THEN next(r.html) ELSE Rethrow(r, filename)

\* ejs.render(str, data) with no options argument: the filename option is taken
\* from data
Render(f, str, data) ==
    RenderFrom(f, str, data,
               IF "filename" \in DOMAIN data THEN data.filename ELSE NoFilename, 1, <<>>)

-----------------------------------------------------------------------------
(* scripts/generate-static.js: the manifest and the directories *)

\* the two revisions of the build: pages with a folder, pages with an output path
Builds == {"generate-static", "generate-static-output"}

outputDir == <<"dist">>

viewsDir == <<"src", "views">>

publicDir == <<"src", "public">>

pages ==
    <<[folder |-> "", file |-> "index.ejs", data |-> [title |-> Str("Home")]],
      [folder |-> "about", file |-> "about.ejs", data |-> [title |-> Str("About")]],
      [folder |-> "contact", file |-> "contact.ejs", data |-> [title |-> Str("Contact")]],
      [folder |-> "profile", file |-> "profile.ejs",
       data |-> [title |-> <<"Joe Bloggs", "'", "s Profile">>,
                 user |-> [name |-> Str("Joe Bloggs"), firstname |-> Str("Joe"),
                           id |-> Str("239482"),
                           key |-> <<Str("reading"), Str("gaming"), Str("hiking")>>]]]>>

templatePath(page) == PathJoin(viewsDir, page.file)

\* { ...page.data, filename: templatePath }
RenderData(page) ==
    [k \in DOMAIN page.data \cup {"filename"} |->
        IF k = "filename" THEN templatePath(page) ELSE page.data[k]]

\* pageDir with the page's folder left out: every page lands in the root
pageDirRoot(page) == outputDir

pageDir(page) == PathJoin(outputDir, page.folder)

outputPath(page) == PathJoin(pageDir(page), "index.html")

\* GeneratedLine naming the root page whatever the page is
GeneratedLineRoot(page) == <<"Generated", "root", "index.html">>

\* `${page.folder || "root"}/index.html`
GeneratedLine(page) ==
    <<"Generated", IF page.folder = "" THEN "root" ELSE page.folder, "index.html">>

-----------------------------------------------------------------------------
(* The file systems a run may find *)

\* the tree holding the given files (<<path, data>>) and directories
MkTree(files, dirs) ==
    [p \in UNION {Ancestors(q) : q \in {<<>>} \cup dirs \cup {e[1] : e \in files}} |->
        IF \E e \in files : e[1] = p
        THEN FileNode((CHOOSE e \in files : e[1] = p)[2])
        ELSE DirNode]

PageTemplates ==
    {<<PathJoin(viewsDir, "index.ejs"), IndexEjs>>,
     <<PathJoin(viewsDir, "about.ejs"), AboutEjs>>,
     <<PathJoin(viewsDir, "contact.ejs"), ContactEjs>>,
     <<PathJoin(viewsDir, "profile.ejs"), ProfileEjs>>}

\* the page templates src/views may hold: any of the four missing, or all
\* there with about.ejs reading a variable its entry does not carry
ViewsChoices ==
    (SUBSET PageTemplates)
    \cup {(PageTemplates \ {<<PathJoin(viewsDir, "about.ejs"), AboutEjs>>})
          \cup {<<PathJoin(viewsDir, "about.ejs"), AboutUserEjs>>}}

partialsDir == PathJoin(viewsDir, "partials")

\* the partials as the templates first had them, with every URL behind
\* basePath, and with nav.ejs missing
PartialsChoices ==
    {{<<PathJoin(partialsDir, "head.ejs"), HeadEjs>>,
      <<PathJoin(partialsDir, "header.ejs"), HeaderEjs>>,
      <<PathJoin(partialsDir, "nav.ejs"), NavEjs>>,
      <<PathJoin(partialsDir, "footer.ejs"), FooterEjs>>},
     {<<PathJoin(partialsDir, "head.ejs"), HeadBasePathEjs>>,
      <<PathJoin(partialsDir, "header.ejs"), HeaderEjs>>,
      <<PathJoin(partialsDir, "nav.ejs"), NavBasePathEjs>>,
      <<PathJoin(partialsDir, "footer.ejs"), FooterEjs>>},
     {<<PathJoin(partialsDir, "head.ejs"), HeadEjs>>,
      <<PathJoin(partialsDir, "header.ejs"), HeaderEjs>>,
      <<PathJoin(partialsDir, "footer.ejs"), FooterEjs>>}}

Css == <<Text("body { margin: 0 }")>>

Svg == <<[t |-> "svg", v |-> <<"favicon">>]>>

Stale == <<Text("left by an earlier build")>>

iconsDir == PathJoin(publicDir, "icons")

svgPath == PathJoin(iconsDir, "favicon.svg")

\* the tree f with the symbolic links (<<path, target>>) added
WithLinks(f, links) ==
    [p \in DOMAIN f \cup {l[1] : l \in links} |->
        IF \E l \in links : l[1] = p
        THEN LinkNode((CHOOSE l \in links : l[1] = p)[2])
        ELSE f[p]]

Secret == <<Text("API_KEY=...")>>

\* src/public: missing, empty, styles/ and icons/ with a file each and a file
\* beside them, or two symbolic links: one to a file and one to a directory
\* that are not in src/public
PublicChoices ==
    {[files |-> {}, dirs |-> {}, links |-> {}],
     [files |-> {}, dirs |-> {publicDir}, links |-> {}],
     [files |-> {<<publicDir \o <<"styles", "style.css">>, Css>>, <<svgPath, Svg>>,
                 <<PathJoin(publicDir, "robots.txt"), <<Text("User-agent: *")>>>>},
      dirs |-> {}, links |-> {}],
     [files |-> {<<<<".env">>, Secret>>}, dirs |-> {publicDir},
      links |-> {<<PathJoin(publicDir, "env.txt"), <<".env">>>>,
                 <<PathJoin(publicDir, "views"), viewsDir>>}]}

\* dist: missing; empty; holding an earlier build's output; or with something in the way
DistChoices ==
    {[files |-> {}, dirs |-> {}],
     [files |-> {}, dirs |-> {outputDir}],
     [files |-> {<<outputDir \o <<"index.html">>, Stale>>,
                 <<outputDir \o <<"about", "index.html">>, Stale>>,
                 <<outputDir \o <<"old", "index.html">>, Stale>>,
                 <<outputDir \o <<"public", "styles", "style.css">>, Stale>>,
                 <<outputDir \o <<"public", "gone.css">>, Stale>>},
      dirs |-> {}],
     [files |-> {<<outputDir, Stale>>}, dirs |-> {}],
     [files |-> {<<outputDir \o <<"contact">>, Stale>>}, dirs |-> {}],
     [files |-> {}, dirs |-> {outputDir \o <<"about", "index.html">>}],
     [files |-> {<<outputDir \o <<"public">>, Stale>>}, dirs |-> {}],
     [files |-> {<<outputDir \o <<"public", "styles">>, Stale>>}, dirs |-> {}],
     [files |-> {}, dirs |-> {outputDir \o <<"public", "robots.txt">>}]}

BuildFileSystems ==
    {WithLinks(MkTree(views \cup partials \cup pub.files \cup dist.files,
                      {viewsDir} \cup pub.dirs \cup dist.dirs), pub.links) :
        views \in ViewsChoices, partials \in PartialsChoices,
        pub \in PublicChoices, dist \in DistChoices}

-----------------------------------------------------------------------------
(* generateStaticFiles *)

Op(name, path, page) == [op |-> name, path |-> path, page |-> page]

\* Reject with the failing step tried again instead of ending the run
RejectRetry(e) ==
    /\ err' = e
    /\ pc' = pc

\* an awaited call threw: the async function's promise is rejected
Reject(e) ==
    /\ err' = e
    /\ pc' = "rejected"

\* await fs.mkdir(outputDir, { recursive: true })
GsStart ==
    /\ cmd = "generate-static" /\ pc = "start"
    /\ ops' = Append(ops, Op("mkdir", outputDir, 0))
    /\ IF MkdirOk(fs, outputDir)
       THEN /\ fs' = Mkdir(fs, outputDir)
            /\ pc' = "read"
            /\ idx' = 1
            /\ err' = err
       ELSE /\ Reject(Err("EEXIST", outputDir, <<>>))
            /\ UNCHANGED <<fs, idx>>
    /\ UNCHANGED <<argv, call, server, cmd, builds, fs0, dirOrder, run, templateStr, html, stack, stdout, stderr, exitCode, first>>

\* const templateStr = await fs.readFile(templatePath, "utf8")
GsReadTemplate ==
    /\ cmd = "generate-static" /\ pc = "read"
    /\ LET page == pages[idx] IN
       /\ ops' = Append(ops, Op("readFile", templatePath(page), idx))
       /\ IF ReadFileOk(fs, templatePath(page))
          THEN /\ templateStr' = ReadFile(fs, templatePath(page))
               /\ pc' = "render"
               /\ err' = err
          ELSE /\ Reject(Err("ENOENT", templatePath(page), <<>>))
               /\ UNCHANGED templateStr
    /\ UNCHANGED <<argv, call, server, cmd, builds, fs, fs0, dirOrder, run, idx, html, stack, stdout, stderr, exitCode, first>>

\* const html = ejs.render(templateStr, { ...page.data, filename: templatePath })
GsRender ==
    /\ cmd = "generate-static" /\ pc = "render"
    /\ LET page == pages[idx]
           r == Render(fs, templateStr, RenderData(page))
       IN /\ ops' = Append(ops, Op("render", templatePath(page), idx))
          /\ IF r.ok
             THEN /\ html' = r.html
                  /\ pc' = "mkdir"
                  /\ err' = err
             ELSE /\ Reject(r.err)
                  /\ UNCHANGED html
    /\ UNCHANGED <<argv, call, server, cmd, builds, fs, fs0, dirOrder, run, idx, templateStr, stack, stdout, stderr, exitCode, first>>

\* await fs.mkdir(pageDir, { recursive: true })
GsMkdirPage ==
    /\ cmd = "generate-static" /\ pc = "mkdir"
    /\ LET page == pages[idx] IN
       /\ ops' = Append(ops, Op("mkdir", pageDir(page), idx))
       /\ IF MkdirOk(fs, pageDir(page))
          THEN /\ fs' = Mkdir(fs, pageDir(page))
               /\ pc' = "write"
               /\ err' = err
          ELSE /\ Reject(Err("EEXIST", pageDir(page), <<>>))
               /\ UNCHANGED fs
    /\ UNCHANGED <<argv, call, server, cmd, builds, fs0, dirOrder, run, idx, templateStr, html, stack, stdout, stderr, exitCode, first>>

\* AfterPage with the copyDir call inside the loop body
AfterPageCopy(k) == "copy_mkdir"

\* the loop's next step after page k: the next page, or copyDir after the last
AfterPage(k) == IF k < Len(pages) THEN "read" ELSE "copy_mkdir"

\* await fs.writeFile(outputPath, html); console.log(...); then the next page,
\* or after the last one copyDir(publicDir, path.join(outputDir, "public"))
GsWritePage ==
    /\ cmd = "generate-static" /\ pc = "write"
    /\ LET page == pages[idx] IN
       /\ ops' = Append(ops, Op("writeFile", outputPath(page), idx))
       /\ IF WriteFileOk(fs, outputPath(page))
          THEN /\ fs' = WriteFile(fs, outputPath(page), html)
               /\ stdout' = Append(stdout, GeneratedLine(page))
               /\ pc' = AfterPage(idx)
               /\ idx' = idx + 1
               /\ stack' = IF AfterPage(idx) = "copy_mkdir"
                           THEN <<[src |-> publicDir, dest |-> PathJoin(outputDir, "public"),
                                   entries |-> <<>>]>>
                           ELSE stack
               /\ err' = err
          ELSE /\ Reject(Err("EISDIR", outputPath(page), <<>>))
               /\ UNCHANGED <<fs, stdout, idx, stack>>
    /\ UNCHANGED <<argv, call, server, cmd, builds, fs0, dirOrder, run, templateStr, html, stderr, exitCode, first>>

-----------------------------------------------------------------------------
(* generateStaticFiles, the revision whose pages carry an output path *)

pagesOutput ==
    <<[file |-> "index.ejs", output |-> <<"index.html">>, data |-> [title |-> Str("Home")]],
      [file |-> "about.ejs", output |-> <<"about", "index.html">>,
       data |-> [title |-> Str("About")]],
      [file |-> "contact.ejs", output |-> <<"contact.html">>,
       data |-> [title |-> Str("Contact")]],
      [file |-> "profile.ejs", output |-> <<"profile.html">>,
       data |-> [title |-> <<"Joe Bloggs", "'", "s Profile">>,
                 user |-> [name |-> Str("Joe Bloggs"), firstname |-> Str("Joe"),
                           id |-> Str("239482"),
                           key |-> <<Str("reading"), Str("gaming"), Str("hiking")>>]]]>>

\* outputPathOf with the directories of page.output left out
outputPathBase(page) == outputDir \o <<page.output[Len(page.output)]>>

\* path.join(outputDir, page.output)
outputPathOf(page) == outputDir \o page.output

\* the code fs.writeFile fails with
WriteFileErr(f, p) ==
    IF ~Exists(f, Parent(p)) THEN "ENOENT"
    ELSE IF ~IsDir(f, Parent(p)) THEN "ENOTDIR"
    ELSE "EISDIR"

\* await fs.mkdir(outputDir, { recursive: true })
OutStart ==
    /\ cmd = "generate-static-output" /\ pc = "start"
    /\ ops' = Append(ops, Op("mkdir", outputDir, 0))
    /\ IF MkdirOk(fs, outputDir)
       THEN /\ fs' = Mkdir(fs, outputDir)
            /\ pc' = "read"
            /\ idx' = 1
            /\ err' = err
       ELSE /\ Reject(Err("EEXIST", outputDir, <<>>))
            /\ UNCHANGED <<fs, idx>>
    /\ UNCHANGED <<argv, call, server, cmd, builds, fs0, dirOrder, run, templateStr, html, stack, stdout, stderr, exitCode, first>>

\* const templateStr = await fs.readFile(templatePath, "utf8")
OutReadTemplate ==
    /\ cmd = "generate-static-output" /\ pc = "read"
    /\ LET page == pagesOutput[idx] IN
       /\ ops' = Append(ops, Op("readFile", templatePath(page), idx))
       /\ IF ReadFileOk(fs, templatePath(page))
          THEN /\ templateStr' = ReadFile(fs, templatePath(page))
               /\ pc' = "render"
               /\ err' = err
          ELSE /\ Reject(Err("ENOENT", templatePath(page), <<>>))
               /\ UNCHANGED templateStr
    /\ UNCHANGED <<argv, call, server, cmd, builds, fs, fs0, dirOrder, run, idx, html, stack, stdout, stderr, exitCode, first>>

\* const html = ejs.render(templateStr, { ...page.data, filename: templatePath });
\* the write comes next, no directory is made for the page
OutRender ==
    /\ cmd = "generate-static-output" /\ pc = "render"
    /\ LET page == pagesOutput[idx]
           r == Render(fs, templateStr, RenderData(page))
       IN /\ ops' = Append(ops, Op("render", templatePath(page), idx))
          /\ IF r.ok
             THEN /\ html' = r.html
                  /\ pc' = "write"
                  /\ err' = err
             ELSE /\ Reject(r.err)
                  /\ UNCHANGED html
    /\ UNCHANGED <<argv, call, server, cmd, builds, fs, fs0, dirOrder, run, idx, templateStr, stack, stdout, stderr, exitCode, first>>

\* await fs.writeFile(outputPath, html); console.log(`Generated ${page.output}`);
\* then the next page, or after the last one copyDir(publicDir, <outputDir>/public)
OutWritePage ==
    /\ cmd = "generate-static-output" /\ pc = "write"
    /\ LET page == pagesOutput[idx] IN
       /\ ops' = Append(ops, Op("writeFile", outputPathOf(page), idx))
       /\ IF WriteFileOk(fs, outputPathOf(page))
          THEN /\ fs' = WriteFile(fs, outputPathOf(page), html)
               /\ stdout' = Append(stdout, <<"Generated">> \o page.output)
               /\ pc' = IF idx < Len(pagesOutput) THEN "read" ELSE "copy_mkdir"
               /\ idx' = idx + 1
               /\ stack' = IF idx < Len(pagesOutput)
                           THEN stack
                           ELSE <<[src |-> publicDir, dest |-> PathJoin(outputDir, "public"),
                                   entries |-> <<>>]>>
               /\ err' = err
          ELSE /\ Reject(Err(WriteFileErr(fs, outputPathOf(page)), outputPathOf(page), <<>>))
               /\ UNCHANGED <<fs, stdout, idx, stack>>
    /\ UNCHANGED <<argv, call, server, cmd, builds, fs0, dirOrder, run, templateStr, html, stderr, exitCode, first>>

-----------------------------------------------------------------------------
(* copyDir, the same in both revisions *)

Top == stack[Len(stack)]

\* await fs.mkdir(dest, { recursive: true })
CopyMkdir ==
    /\ cmd \in Builds /\ pc = "copy_mkdir"
    /\ ops' = Append(ops, Op("mkdir", Top.dest, 0))
    /\ IF MkdirOk(fs, Top.dest)
       THEN /\ fs' = Mkdir(fs, Top.dest)
            /\ pc' = "copy_readdir"
            /\ err' = err
       ELSE /\ Reject(Err("EEXIST", Top.dest, <<>>))
            /\ UNCHANGED fs
    /\ UNCHANGED <<argv, call, server, cmd, builds, fs0, dirOrder, run, idx, templateStr, html, stack, stdout, stderr, exitCode, first>>

\* const entries = await fs.readdir(src, { withFileTypes: true })
CopyReaddir ==
    /\ cmd \in Builds /\ pc = "copy_readdir"
    /\ ops' = Append(ops, Op("readdir", Top.src, 0))
    /\ IF ReaddirOk(fs, Top.src)
       THEN /\ stack' = [stack EXCEPT ![Len(stack)].entries = Readdir(dirOrder, Top.src)]
            /\ pc' = "copy_entry"
            /\ err' = err
       ELSE /\ Reject(Err("ENOENT", Top.src, <<>>))
            /\ UNCHANGED stack
    /\ UNCHANGED <<argv, call, server, cmd, builds, fs, fs0, dirOrder, run, idx, templateStr, html, stdout, stderr, exitCode, first>>

\* one turn of for (const entry of entries): a subdirectory starts a nested
\* copyDir, anything else is copied with fs.copyFile
CopyEntry ==
    /\ cmd \in Builds /\ pc = "copy_entry"
    /\ Top.entries # <<>>
    /\ LET entry == Head(Top.entries)
           srcPath == PathJoin(Top.src, entry)
           destPath == PathJoin(Top.dest, entry)
           rest == [stack EXCEPT ![Len(stack)].entries = Tail(@)]
       IN IF IsDir(fs, srcPath)
          THEN /\ stack' = Append(rest, [src |-> srcPath, dest |-> destPath, entries |-> <<>>])
               /\ pc' = "copy_mkdir"
               /\ UNCHANGED <<fs, ops, err>>
          ELSE /\ ops' = Append(ops, Op("copyFile", destPath, 0))
               /\ IF CopyFileOk(fs, srcPath, destPath)
                  THEN /\ fs' = CopyFile(fs, srcPath, destPath)
                       /\ stack' = rest
                       /\ pc' = "copy_entry"
                       /\ err' = err
                  ELSE /\ Reject(Err("EISDIR", destPath, <<>>))
                       /\ UNCHANGED <<fs, stack>>
    /\ UNCHANGED <<argv, call, server, cmd, builds, fs0, dirOrder, run, idx, templateStr, html, stdout, stderr, exitCode, first>>

\* CopyReturn that never returns: the activation stays where it is
CopyReturnStay ==
    /\ cmd \in Builds /\ pc = "copy_entry"
    /\ Top.entries = <<>>
    /\ UNCHANGED vars

\* the loop of a copyDir ends: it returns to the copyDir that called it, and
\* the outermost one resolves generateStaticFiles
CopyReturn ==
    /\ cmd \in Builds /\ pc = "copy_entry"
    /\ Top.entries = <<>>
    /\ stack' = SubSeq(stack, 1, Len(stack) - 1)
    /\ pc' = IF Len(stack) = 1 THEN "settled" ELSE "copy_entry"
    /\ UNCHANGED <<argv, call, server, cmd, builds, fs, fs0, dirOrder, run, idx, templateStr, html, ops, stdout, stderr, err,
                   exitCode, first>>

-----------------------------------------------------------------------------
(* scripts/generate-favicons.js *)

iconsOutputDir == PathJoin(PathJoin(<<"src">>, "public"), "icons")

sizes ==
    <<[size |-> 32, output |-> "favicon-32.png"],
      [size |-> 180, output |-> "apple-touch-icon.png"],
      [size |-> 192, output |-> "icon-192.png"]>>

iconPath(target) == PathJoin(iconsOutputDir, target.output)

\* what sharp can read as an SVG image
IsSvg(d) == Len(d) = 1 /\ d[1].t = "svg"

\* sharp(src).resize(w, h).png(): the image of src as a PNG raster of w x h pixels
Rasterize(d, w, h) == <<[t |-> "png", v |-> d[1].v, width |-> w, height |-> h]>>

\* sharp(src)...toFile(out)
ToFileOk(f, src, out) ==
    /\ IsFile(f, src) /\ IsSvg(f[src].data)
    /\ IsDir(f, Parent(out)) /\ ~IsDir(f, out)

\* the icon a target is written as: resize(size, size).png()
Icon(f, target) == Rasterize(f[svgPath].data, target.size, target.size)

IconNames == {sizes[k].output : k \in 1..Len(sizes)}

\* favicon.svg valid, unreadable as an image, or missing; each output name
\* free, taken by a file of an earlier run, or taken by a directory
IconFileSystems ==
    {MkTree(src \cup {<<PathJoin(iconsOutputDir, n), Stale>> : n \in old},
            {PathJoin(iconsOutputDir, n) : n \in blocked}) :
        src \in {{<<svgPath, Svg>>}, {<<svgPath, Stale>>}, {}},
        old \in SUBSET IconNames,
        blocked \in SUBSET IconNames}

\* console.log of the two paths; await fs.mkdir(outputDir, { recursive: true })
PngStart ==
    /\ cmd = "makeicons" /\ pc = "start"
    /\ ops' = Append(ops, Op("mkdir", iconsOutputDir, 0))
    /\ IF MkdirOk(fs, iconsOutputDir)
       THEN /\ fs' = Mkdir(fs, iconsOutputDir)
            /\ stdout' = stdout \o <<<<"SVG Path:">>, <<"Output Dir:">>,
                                     <<"Output directory created or already exists">>>>
            /\ pc' = "target"
            /\ idx' = 1
            /\ err' = err
       ELSE /\ Reject(Err("EEXIST", iconsOutputDir, <<>>))
            /\ stdout' = stdout \o <<<<"SVG Path:">>, <<"Output Dir:">>>>
            /\ UNCHANGED <<fs, idx>>
    /\ UNCHANGED <<argv, call, server, cmd, builds, fs0, dirOrder, run, templateStr, html, stack, stderr, exitCode, first>>

\* one turn of for (const { size, output } of sizes):
\* await sharp(svgPath).resize(size, size).png().toFile(outputPath)
PngTarget ==
    /\ cmd = "makeicons" /\ pc = "target"
    /\ LET target == sizes[idx] IN
       /\ ops' = Append(ops, Op("toFile", iconPath(target), idx))
       /\ IF ToFileOk(fs, svgPath, iconPath(target))
          THEN /\ fs' = WriteFile(fs, iconPath(target), Icon(fs, target))
               /\ stdout' = stdout \o <<<<"Processing", target.output, target.size>>,
                                        <<"Generated", target.output>>>>
               /\ pc' = IF idx < Len(sizes) THEN "target" ELSE "settled"
               /\ idx' = idx + 1
               /\ err' = err
          ELSE /\ Reject(Err("SharpError", iconPath(target), <<>>))
               /\ stdout' = Append(stdout, <<"Processing", target.output, target.size>>)
               /\ UNCHANGED <<fs, idx>>
    /\ UNCHANGED <<argv, call, server, cmd, builds, fs0, dirOrder, run, templateStr, html, stack, stderr, exitCode, first>>

-----------------------------------------------------------------------------
(* scripts/generate-favicons (error).js: the revision with an ICO target *)

tempOutputDir == PathJoin(iconsDir, "temp")

\* the targets with the .ico one last
icoSizesPngFirst ==
    <<[size |-> 180, output |-> "apple-touch-icon.png"],
      [size |-> 192, output |-> "icon-192.png"],
      [size |-> 32, output |-> "favicon.ico"]>>

icoSizes ==
    <<[size |-> 32, output |-> "favicon.ico"],
      [size |-> 180, output |-> "apple-touch-icon.png"],
      [size |-> 192, output |-> "icon-192.png"]>>

icoPath(target) == PathJoin(tempOutputDir, target.output)

\* output.endsWith(".ico")
EndsWithIco(output) == output = "favicon.ico"

\* sharp(src)...toBuffer()
ToBufferOk(f, src) == IsFile(f, src) /\ IsSvg(f[src].data)

\* what encode([{ width, height, buffer }]) of ico-endec returns when it
\* returns: the raster in an ICO container
encode(d) == <<[t |-> "ico", v |-> d[1].v, width |-> d[1].width, height |-> d[1].height]>>

IcoNames == {icoSizes[k].output : k \in 1..Len(icoSizes)}

\* as IconFileSystems, the output names being those of icons/temp
IcoFileSystems ==
    {MkTree(src \cup {<<PathJoin(tempOutputDir, n), Stale>> : n \in old},
            {PathJoin(tempOutputDir, n) : n \in blocked}) :
        src \in {{<<svgPath, Svg>>}, {<<svgPath, Stale>>}, {}},
        old \in SUBSET IcoNames,
        blocked \in SUBSET IcoNames}

\* console.log of the two paths; await fs.mkdir(outputDir, { recursive: true })
IcoStart ==
    /\ cmd = "generate-favicons-error" /\ pc = "start"
    /\ ops' = Append(ops, Op("mkdir", tempOutputDir, 0))
    /\ IF MkdirOk(fs, tempOutputDir)
       THEN /\ fs' = Mkdir(fs, tempOutputDir)
            /\ stdout' = stdout \o <<<<"SVG Path:">>, <<"Output Dir:">>,
                                     <<"Output directory created or already exists">>>>
            /\ pc' = "target"
            /\ idx' = 1
            /\ err' = err
       ELSE /\ Reject(Err("EEXIST", tempOutputDir, <<>>))
            /\ stdout' = stdout \o <<<<"SVG Path:">>, <<"Output Dir:">>>>
            /\ UNCHANGED <<fs, idx>>
    /\ UNCHANGED <<argv, call, server, cmd, builds, fs0, dirOrder, run, templateStr, html, stack, stderr, exitCode, first>>

\* the .ico turn of the loop: the PNG buffer from sharp, encode, fs.writeFile.
\* encode is a call into ico-endec: it throws ("Encoder requires ArrayBuffers
\* or Buffers") or returns the ICO buffer
IcoTargetIco ==
    /\ cmd = "generate-favicons-error" /\ pc = "target"
    /\ EndsWithIco(icoSizes[idx].output)
    /\ LET target == icoSizes[idx]
           pngBuffer == Rasterize(fs[svgPath].data, target.size, target.size)
       IN IF ~ToBufferOk(fs, svgPath)
          THEN /\ ops' = Append(ops, Op("toBuffer", svgPath, idx))
               /\ Reject(Err("SharpError", svgPath, <<>>))
               /\ stdout' = Append(stdout, <<"Processing", target.output, target.size>>)
               /\ UNCHANGED <<fs, idx>>
          ELSE \E thrown \in BOOLEAN :
               IF thrown
               THEN /\ ops' = ops \o <<Op("toBuffer", svgPath, idx),
                                       Op("encode", icoPath(target), idx)>>
                    /\ Reject(Err("EncoderError", icoPath(target), <<>>))
                    /\ stdout' = stdout \o <<<<"Processing", target.output, target.size>>,
                                             <<"PNG Buffer for ICO:">>>>
                    /\ UNCHANGED <<fs, idx>>
               ELSE /\ ops' = ops \o <<Op("toBuffer", svgPath, idx),
                                       Op("encode", icoPath(target), idx),
                                       Op("writeFile", icoPath(target), idx)>>
                    /\ IF WriteFileOk(fs, icoPath(target))
                       THEN /\ fs' = WriteFile(fs, icoPath(target), encode(pngBuffer))
                            /\ stdout' = stdout \o <<<<"Processing", target.output, target.size>>,
                                                     <<"PNG Buffer for ICO:">>,
                                                     <<"ICO Buffer:">>,
                                                     <<"Generated", target.output>>>>
                            /\ pc' = IF idx < Len(icoSizes) THEN "target" ELSE "settled"
                            /\ idx' = idx + 1
                            /\ err' = err
                       ELSE /\ Reject(Err(WriteFileErr(fs, icoPath(target)), icoPath(target),
                                          <<>>))
                            /\ stdout' = stdout \o <<<<"Processing", target.output, target.size>>,
                                                     <<"PNG Buffer for ICO:">>,
                                                     <<"ICO Buffer:">>>>
                            /\ UNCHANGED <<fs, idx>>
    /\ UNCHANGED <<argv, call, server, cmd, builds, fs0, dirOrder, run, templateStr, html, stack, stderr, exitCode, first>>

\* the else turn of the loop:
\* await sharp(svgPath).resize(size, size).png().toFile(outputPath)
IcoTargetPng ==
    /\ cmd = "generate-favicons-error" /\ pc = "target"
    /\ ~EndsWithIco(icoSizes[idx].output)
    /\ LET target == icoSizes[idx] IN
       /\ ops' = Append(ops, Op("toFile", icoPath(target), idx))
       /\ IF ToFileOk(fs, svgPath, icoPath(target))
          THEN /\ fs' = WriteFile(fs, icoPath(target), Icon(fs, target))
               /\ stdout' = stdout \o <<<<"Processing", target.output, target.size>>,
                                        <<"Generated", target.output>>>>
               /\ pc' = IF idx < Len(icoSizes) THEN "target" ELSE "settled"
               /\ idx' = idx + 1
               /\ err' = err
          ELSE /\ Reject(Err("SharpError", icoPath(target), <<>>))
               /\ stdout' = Append(stdout, <<"Processing", target.output, target.size>>)
               /\ UNCHANGED <<fs, idx>>
    /\ UNCHANGED <<argv, call, server, cmd, builds, fs0, dirOrder, run, templateStr, html, stack, stderr, exitCode, first>>

-----------------------------------------------------------------------------
(* The end of the process *)

\* Catch printing the label alone: console.error("Error:")
CatchNoReason ==
    /\ pc = "rejected"
    /\ stderr' = Append(stderr, [label |-> "Error:", err |-> NoErr])
    /\ pc' = "settled"
    /\ UNCHANGED <<argv, call, server, cmd, builds, fs, fs0, dirOrder, run, idx, templateStr, html, stack, ops, stdout, err,
                   exitCode, first>>

\* Catch that also puts the file system back to what the run found
CatchRollback ==
    /\ pc = "rejected"
    /\ stderr' = Append(stderr, [label |-> "Error:", err |-> err])
    /\ fs' = fs0
    /\ pc' = "settled"
    /\ UNCHANGED <<argv, call, server, cmd, builds, fs0, dirOrder, run, idx, templateStr, html, stack, ops, stdout, err,
                   exitCode, first>>

\* .catch((err) => console.error("Error:", err))
Catch ==
    /\ pc = "rejected"
    /\ stderr' = Append(stderr, [label |-> "Error:", err |-> err])
    /\ pc' = "settled"
    /\ UNCHANGED <<argv, call, server, cmd, builds, fs, fs0, dirOrder, run, idx, templateStr, html, stack, ops, stdout, err,
                   exitCode, first>>

\* the status node exits with once nothing is left to run: process.exitCode
\* is never set and no exception is left uncaught
ExitStatus == 0

Exit ==
    /\ pc = "settled"
    /\ exitCode' = ExitStatus
    /\ pc' = "exited"
    /\ UNCHANGED <<argv, call, server, cmd, builds, fs, fs0, dirOrder, run, idx, templateStr, html, stack, ops, stdout, stderr,
                   err, first>>

\* the same command is run again on what the run before left
Rerun ==
    /\ pc = "exited"
    /\ run < MaxRuns
    /\ run' = run + 1
    /\ first' = IF run = 1 THEN [fs |-> fs, failed |-> err # NoErr, stdout |-> stdout]
                ELSE first
    /\ fs0' = fs
    /\ pc' = "start"
    /\ idx' = 0
    /\ templateStr' = <<>>
    /\ html' = <<>>
    /\ stack' = <<>>
    /\ ops' = <<>>
    /\ stdout' = <<>>
    /\ stderr' = <<>>
    /\ err' = NoErr
    /\ exitCode' = -1
    /\ UNCHANGED <<argv, call, server, cmd, builds, fs, dirOrder>>

-----------------------------------------------------------------------------
(* The loop body of generateStaticFiles, one activation per page, the      *)
(* activations taking their steps in any order (as under Promise.all): the *)
(* build the pages would make if they were not awaited one after another   *)

RECURSIVE BuildPages(_, _)
\* the file system the for loop leaves when run on f from page k: the loop
\* ends at the first call that fails
BuildPages(f, k) ==
    IF k > Len(pages) THEN f
    ELSE LET page == pages[k] IN
         IF ~ReadFileOk(f, templatePath(page)) THEN f
         ELSE LET r == Render(f, ReadFile(f, templatePath(page)), RenderData(page)) IN
              IF ~r.ok \/ ~MkdirOk(f, pageDir(page)) THEN f
              ELSE LET g == Mkdir(f, pageDir(page)) IN
                   IF ~WriteFileOk(g, outputPath(page)) THEN g
                   ELSE BuildPages(WriteFile(g, outputPath(page), r.html), k + 1)

\* the partials as the templates first had them
PlainPartials == CHOOSE partials \in PartialsChoices : \E e \in partials : e[2] = NavEjs

\* the trees the loop may start on: outputDir made, contact.ejs there or not
SideFileSystems ==
    {Mkdir(MkTree(views \cup PlainPartials \cup dist.files, {viewsDir} \cup dist.dirs),
           outputDir) :
        views \in {PageTemplates,
                   PageTemplates \ {<<PathJoin(viewsDir, "contact.ejs"), ContactEjs>>}},
        dist \in {d \in DistChoices : ~\E e \in d.files : e[1] = outputDir}}

Activation(at, tpl, out) == [pc |-> at, templateStr |-> tpl, html |-> out]

\* const templateStr = await fs.readFile(templatePath, "utf8")
SideReadTemplate(k) ==
    /\ cmd = "pages-side-by-side" /\ builds[k].pc = "read"
    /\ builds' = [builds EXCEPT ![k] =
                     IF ReadFileOk(fs, templatePath(pages[k]))
                     THEN Activation("render", ReadFile(fs, templatePath(pages[k])), <<>>)
                     ELSE Activation("failed", <<>>, <<>>)]
    /\ UNCHANGED <<argv, call, server, cmd, fs, fs0, dirOrder, pc, run, idx, templateStr, html, stack, ops, stdout,
                   stderr, err, exitCode, first>>

\* const html = ejs.render(templateStr, { ...page.data, filename: templatePath })
SideRender(k) ==
    /\ cmd = "pages-side-by-side" /\ builds[k].pc = "render"
    /\ LET r == Render(fs, builds[k].templateStr, RenderData(pages[k])) IN
       builds' = [builds EXCEPT ![k] =
                     IF r.ok THEN Activation("mkdir", builds[k].templateStr, r.html)
                     ELSE Activation("failed", <<>>, <<>>)]
    /\ UNCHANGED <<argv, call, server, cmd, fs, fs0, dirOrder, pc, run, idx, templateStr, html, stack, ops, stdout,
                   stderr, err, exitCode, first>>

\* await fs.mkdir(pageDir, { recursive: true })
SideMkdirPage(k) ==
    /\ cmd = "pages-side-by-side" /\ builds[k].pc = "mkdir"
    /\ IF MkdirOk(fs, pageDir(pages[k]))
       THEN /\ fs' = Mkdir(fs, pageDir(pages[k]))
            /\ builds' = [builds EXCEPT ![k].pc = "write"]
       ELSE /\ fs' = fs
            /\ builds' = [builds EXCEPT ![k] = Activation("failed", <<>>, <<>>)]
    /\ UNCHANGED <<argv, call, server, cmd, fs0, dirOrder, pc, run, idx, templateStr, html, stack, ops, stdout,
                   stderr, err, exitCode, first>>

\* await fs.writeFile(outputPath, html); console.log(...)
SideWritePage(k) ==
    /\ cmd = "pages-side-by-side" /\ builds[k].pc = "write"
    /\ ops' = Append(ops, Op("writeFile", outputPath(pages[k]), k))
    /\ IF WriteFileOk(fs, outputPath(pages[k]))
       THEN /\ fs' = WriteFile(fs, outputPath(pages[k]), builds[k].html)
            /\ stdout' = Append(stdout, GeneratedLine(pages[k]))
            /\ builds' = [builds EXCEPT ![k] = Activation("done", <<>>, <<>>)]
       ELSE /\ UNCHANGED <<fs, stdout>>
            /\ builds' = [builds EXCEPT ![k] = Activation("failed", <<>>, <<>>)]
    /\ UNCHANGED <<argv, call, server, cmd, fs0, dirOrder, pc, run, idx, templateStr, html, stack, stderr, err,
                   exitCode, first>>

-----------------------------------------------------------------------------
(* The Express application: src/app.js in its three revisions, with        *)
(* routes/index.js in its three revisions.  A request goes down the stack  *)
(* of middleware in the order of the app.use and app.get calls; every      *)
(* middleware function that Express calls is one action.                   *)

\* the characters toLowerCase and toUpperCase change; a string the routes
\* work on is a sequence of single characters
LowerCase ==
    <<"a", "b", "c", "d", "e", "f", "g", "h", "i", "j", "k", "l", "m",
      "n", "o", "p", "q", "r", "s", "t", "u", "v", "w", "x", "y", "z">>

UpperCase ==
    <<"A", "B", "C", "D", "E", "F", "G", "H", "I", "J", "K", "L", "M",
      "N", "O", "P", "Q", "R", "S", "T", "U", "V", "W", "X", "Y", "Z">>

toLowerCase(s) ==
    [k \in 1..Len(s) |->
        IF \E j \in 1..Len(UpperCase) : UpperCase[j] = s[k]
        THEN LowerCase[CHOOSE j \in 1..Len(UpperCase) : UpperCase[j] = s[k]]
        ELSE s[k]]

toUpperCase(s) ==
    [k \in 1..Len(s) |->
        IF \E j \in 1..Len(LowerCase) : LowerCase[j] = s[k]
        THEN UpperCase[CHOOSE j \in 1..Len(LowerCase) : LowerCase[j] = s[k]]
        ELSE s[k]]

\* the values capitalize may be called with: a string, null or undefined
JsString(s) == [t |-> "string", v |-> s]

Null == [t |-> "null", v |-> <<>>]

Undefined == [t |-> "undefined", v |-> <<>>]

RECURSIVE splitTrim(_, _)
\* split with the spaces before each item left out
splitTrim(s, sep) ==
    IF s # <<>> /\ s[1] = " " /\ sep # " " THEN splitTrim(Tail(s), sep)
    ELSE IF \A k \in 1..Len(s) : s[k] # sep THEN <<s>>
    ELSE LET k == CHOOSE i \in 1..Len(s) : s[i] = sep /\ \A j \in 1..(i - 1) : s[j] # sep
         IN <<SubSeq(s, 1, k - 1)>> \o splitTrim(SubSeq(s, k + 1, Len(s)), sep)

RECURSIVE split(_, _)
\* str.split(sep) for a separator of one character
split(s, sep) ==
    IF \A k \in 1..Len(s) : s[k] # sep THEN <<s>>
    ELSE LET k == CHOOSE i \in 1..Len(s) : s[i] = sep /\ \A j \in 1..(i - 1) : s[j] # sep
         IN <<SubSeq(s, 1, k - 1)>> \o split(SubSeq(s, k + 1, Len(s)), sep)

RECURSIVE join(_, _)
\* words.join(sep)
join(words, sep) ==
    IF words = <<>> THEN <<>>
    ELSE IF Len(words) = 1 THEN words[1]
    ELSE words[1] \o <<sep>> \o join(Tail(words), sep)

\* capitalize as it was first: the first character of the string alone is
\* upper-cased
capitalizeFirst(str) ==
    IF str.t # "string" \/ str.v = <<>> THEN <<>>
    ELSE toUpperCase(SubSeq(str.v, 1, 1)) \o toLowerCase(SubSeq(str.v, 2, Len(str.v)))

\* if (!str) return "": null, undefined and the empty string give ""; else
\* every word of the lower-cased string becomes
\* word.charAt(0).toUpperCase() + word.slice(1)
capitalize(str) ==
    IF str.t # "string" \/ str.v = <<>> THEN <<>>
    ELSE LET words == split(toLowerCase(str.v), " ")
             word(w) == IF w = <<>> THEN <<>>
                        ELSE toUpperCase(SubSeq(w, 1, 1)) \o SubSeq(w, 2, Len(w))
         IN join([k \in 1..Len(words) |-> word(words[k])], " ")

JoeBloggs == <<"J", "o", "e", " ", "B", "l", "o", "g", "g", "s">>

DefaultId == <<"2", "3", "9", "4", "8", "2">>

\* the default keys in alphabetical order
DefaultKeySorted ==
    <<<<"g", "a", "m", "i", "n", "g">>, <<"h", "i", "k", "i", "n", "g">>,
      <<"r", "e", "a", "d", "i", "n", "g">>>>

DefaultKey ==
    <<<<"r", "e", "a", "d", "i", "n", "g">>, <<"g", "a", "m", "i", "n", "g">>,
      <<"h", "i", "k", "i", "n", "g">>>>

ProfileSuffix == <<"'", "s", " ", "P", "r", "o", "f", "i", "l", "e">>

\* process.env after dotenv.config(): a variable that is not set is not in
\* the domain
EnvChoices ==
    [USER_NAME |-> {<<"m", "a", "r", "y", " ", "J", "A", "N", "E">>},
     USER_ID |-> {<<"7">>},
     USER_KEY |-> {<<>>, <<"c", "h", "e", "s", "s", ",", "g", "o", "l", "f">>,
                   <<"a", ",", ",", " ", "b">>},
     DEBUG |-> {<<"t", "r", "u", "e">>, <<"T", "R", "U", "E">>,
                <<"f", "a", "l", "s", "e">>}]

\* the routes read USER_NAME, USER_ID and USER_KEY and the error handler
\* reads DEBUG: the environments are those with any of the three set and
\* those with DEBUG set
Environments ==
    UNION {{e \in [names -> UNION {EnvChoices[n] : n \in names}] :
                \A n \in names : e[n] \in EnvChoices[n]} :
           names \in (SUBSET {"USER_NAME", "USER_ID", "USER_KEY"}) \cup {{"DEBUG"}}}

IsSet(name) == name \in DOMAIN env

\* process.env.NAME || fallback
OrElse(name, fallback) == IF IsSet(name) /\ env[name] # <<>> THEN env[name] ELSE fallback

\* the revisions of src/app.js and of src/routes/index.js
AppProfile == "app.js with app.get('/profile')"

AppError == "app.js with the error handler"

AppDebug == "app.js with the DEBUG error handler"

RoutesComponents == "routes/index.js sending components"

RoutesProfile == "routes/index.js rendering views"

RoutesCapitalize == "routes/index.js with capitalize"

\* app.use(path, fn) and app.get(path, fn); path is the sequence of the
\* names in the URL path
Use(path, fn, arg) == [verb |-> "use", path |-> path, fn |-> fn, arg |-> arg]

Get(path, fn, arg) == [verb |-> "get", path |-> path, fn |-> fn, arg |-> arg]

\* the stack of each revision, in the order of its app.use and app.get calls
Middleware(a) ==
    CASE a = AppProfile ->
           <<Use(<<>>, "static", <<>>),
             Use(<<>>, "indexRouter", <<>>),
             Get(<<"profile">>, "profile", <<>>)>>
      [] a = AppError ->
           <<Use(<<>>, "json", <<>>),
             Use(<<>>, "urlencoded", <<>>),
             Use(<<>>, "static", <<"src", "public">>),
             Use(<<>>, "cookieParser", <<>>),
             Use(<<>>, "logger", <<>>),
             Use(<<>>, "indexRouter", <<>>),
             Use(<<"users">>, "usersRouter", <<>>),
             Use(<<>>, "notFound", <<>>),
             Use(<<>>, "errorHandler", <<>>)>>
      [] a = AppDebug ->
           <<Use(<<>>, "static", <<"public">>),
             Get(<<"*">>, "sendIndex", <<>>),
             Use(<<>>, "json", <<>>),
             Use(<<>>, "urlencoded", <<>>),
             Use(<<>>, "static", <<"src", "public">>),
             Use(<<>>, "cookieParser", <<>>),
             Use(<<>>, "logger", <<>>),
             Use(<<>>, "indexRouter", <<>>),
             Use(<<"users">>, "usersRouter", <<>>),
             Use(<<>>, "notFound", <<>>),
             Use(<<>>, "errorHandler", <<>>)>>

\* a middleware function of four parameters is called for errors only
IsErrorLayer(l) == l.fn = "errorHandler"

\* the requests
Requests ==
    [method : {"GET"}, url : {<<>>, <<"about">>, <<"contact">>, <<"profile">>,
                              <<"styles", "style.css">>, <<"missing">>}]
    \cup [method : {"POST"}, url : {<<>>}]

NoReq == [method |-> "", url |-> <<>>]

\* errors
NoError == [name |-> ""]

\* createError(404)
NotFoundError ==
    [name |-> "NotFoundError", status |-> 404, message |-> Str("Not Found"),
     stack |-> Str("NotFoundError: Not Found at app.js")]

\* process.env.USER_KEY.split(",") where USER_KEY is undefined
SplitOfUndefined ==
    [name |-> "TypeError",
     message |-> Str("Cannot read properties of undefined (reading 'split')"),
     stack |-> Str("TypeError: Cannot read properties of undefined (reading 'split') at app.js")]

\* the error res.sendFile passes on for a file that is not there
SendError(path) ==
    [name |-> "NotFoundError", status |-> 404, code |-> "ENOENT", path |-> path,
     message |-> Str("ENOENT: no such file or directory"),
     stack |-> Str("Error: ENOENT: no such file or directory")]

\* the error res.render passes on: the view is not found, or ejs threw
ViewError(e) ==
    [name |-> e.code, path |-> e.path, files |-> e.files,
     message |-> Str(e.code), stack |-> Str(e.code)]

\* every error taken for a server error
StatusServerError(e) == 500

\* err.status || 500
StatusOf(e) == IF "status" \in DOMAIN e /\ e.status # 0 THEN e.status ELSE 500

\* the responses
\* nothing is sent yet; the status of a response is 200 until it is set
NoRes == [status |-> 200, by |-> "", how |-> "", view |-> "", locals |-> [title |-> <<>>], body |-> <<>>]

Response(status, by, how, view, locals, body) ==
    [status |-> status, by |-> by, how |-> how, view |-> view, locals |-> locals, body |-> body]

\* the views of the application; the error page of each revision of the
\* error handler
ErrorEjs ==
    <<Text("<!DOCTYPE html><html><head><title>"), Var(<<"title">>), Text(" - "),
      Var(<<"status">>), Text("</title></head><body>"),
      Include(<<"partials", "header.ejs">>), Include(<<"partials", "nav.ejs">>),
      Text("<main><h1>Error "), Var(<<"status">>), Text("</h1><p>"), Var(<<"message">>),
      Text("</p>"), IfStack("", "error"), Text("</main>"),
      Include(<<"partials", "footer.ejs">>), PageClose>>

ErrorDebugEjs ==
    <<Text("<!DOCTYPE html><html><head><title>"), Var(<<"title">>), Text(" - "),
      Var(<<"status">>), Text("</title></head><body>"),
      Include(<<"partials", "header.ejs">>), Include(<<"partials", "nav.ejs">>),
      Text("<main><h1>Error "), Var(<<"status">>), Text("</h1><p>"), Var(<<"message">>),
      Text("</p>"), IfStack("debug", "error"), Text("</main>"),
      Include(<<"partials", "footer.ejs">>), PageClose>>

\* where res.render looks a view up
viewPath(view) == PathJoin(viewsDir, view)

\* the file systems the application may run on: the views, the partials
\* and the style sheet; with or without index.ejs and the error page; with
\* or without a built dist, which only the revision that sends
\* dist/index.html looks at
\* the views of a revision: the profile page that came with its routes and
\* the error page that came with its error handler
AppViews(a) ==
    {e \in PageTemplates : e[1] # viewPath("profile.ejs")}
    \cup {<<viewPath("profile.ejs"),
            IF a.router = RoutesCapitalize THEN ProfileEjs ELSE ProfileKeysEjs>>,
          <<viewPath("error.ejs"),
            IF a.main = AppDebug THEN ErrorDebugEjs ELSE ErrorEjs>>}
    \cup PlainPartials
    \cup {<<PathJoin(PathJoin(publicDir, "styles"), "style.css"), Css>>}

\* the tree generate-static.js builds: an index.html for each page, in the
\* folder of the page
DistTree ==
    {<<PathJoin(PathJoin(outputDir, pages[k].folder), "index.html"),
       <<Text("<!DOCTYPE html><html>built from "), Text(pages[k].file), Text("</html>")>>>> :
        k \in DOMAIN pages}

AppFileSystems(a) ==
    {MkTree({e \in AppViews(a) : e[1] \notin missing} \cup dist, {viewsDir, publicDir}) :
        missing \in SUBSET {viewPath("error.ejs"), viewPath("index.ejs")},
        dist \in IF a.main = AppDebug THEN {{}, DistTree} ELSE {DistTree}}

\* Express calls a layer for a request when the verb and the path match:
\* app.use matches every method and every path below its own
Matches(l, r) ==
    /\ l.verb = "get" => r.method = "GET"
    /\ \/ l.path = <<"*">>
       \/ l.verb = "use" /\ IsUnder(r.url, l.path)
       \/ l.verb = "get" /\ r.url = l.path

\* next() and next(err): the index of the next layer Express calls, the
\* length of the stack plus one if there is none
NextLayer(a, r, from, e) ==
    LET mw == Middleware(a.main)
        later == {j \in (from + 1)..Len(mw) :
                    /\ Matches(mw[j], r)
                    /\ IsErrorLayer(mw[j]) <=> e.name # ""}
    IN IF later = {} THEN Len(mw) + 1
       ELSE CHOOSE j \in later : \A i \in later : j <= i

Layer == Middleware(app.main)[layer]

AtLayer(fn) == pc = "routing" /\ layer \in 1..Len(Middleware(app.main)) /\ Layer.fn = fn

\* the middleware function calls next() or next(e), the status of the
\* response set as it is by then
Forward(status, e) ==
    /\ nextErr' = e
    /\ layer' = NextLayer(app, req, layer, e)
    /\ trail' = Append(trail, Layer.fn)
    /\ pc' = "routing"
    /\ res' = [res EXCEPT !.status = status]

\* the middleware function ends the response
Send(r) ==
    /\ res' = r
    /\ trail' = Append(trail, Layer.fn)
    /\ pc' = "responded"
    /\ UNCHANGED <<layer, nextErr>>

\* res.locals and the options of res.render, the options first
Merge(locals, options) ==
    [k \in DOMAIN locals \cup DOMAIN options |->
        IF k \in DOMAIN options THEN options[k] ELSE locals[k]]

\* res.render(view, options): the view is looked up and rendered, ejs
\* given the options and the path of the view; the page is sent with the
\* status set so far, an error goes to next(err)
RenderView(status, view, options) ==
    IF ~ReadFileOk(fs, viewPath(view))
    THEN Forward(status, ViewError(Err("ENOENT", viewPath(view), <<>>)))
    ELSE LET r == Render(fs, ReadFile(fs, viewPath(view)),
                           Merge(options, [filename |-> viewPath(view)]))
         IN IF r.ok THEN Send(Response(status, Layer.fn, "render", view, options, r.html))
            ELSE Forward(status, ViewError(r.err))

\* a request arrives; the server takes one request at a time
Request ==
    /\ cmd = "app" /\ pc \in {"listening", "responded"}
    /\ \E r \in Requests :
        /\ req' = r
        /\ layer' = NextLayer(app, r, 0, NoError)
    /\ nextErr' = NoError
    /\ res' = NoRes
    /\ trail' = <<>>
    /\ pc' = "routing"
    /\ UNCHANGED <<argv, call, script, cmd, fs, env, app>>

\* express.json(), express.urlencoded(), cookieParser(), logger("dev"):
\* each works on the request and calls next()
PassThrough ==
    /\ cmd = "app"
    /\ \E fn \in {"json", "urlencoded", "cookieParser", "logger"} : AtLayer(fn)
    /\ Forward(res.status, NoError)
    /\ UNCHANGED <<argv, call, script, cmd, fs, env, app, req>>

\* express.static(root): a GET for a file below root is answered with the
\* file, a GET for a directory with a redirect to the path with a slash,
\* a GET for / with index.html; everything else goes on
Static ==
    /\ cmd = "app" /\ AtLayer("static")
    /\ LET path == Layer.arg \o req.url
           index == PathJoin(Layer.arg, "index.html")
       IN IF req.method # "GET" THEN Forward(res.status, NoError)
          ELSE IF req.url = <<>>
          THEN IF IsFile(fs, index)
               THEN Send(Response(200, "static", "sendFile", "", [file |-> index], fs[index].data))
               ELSE Forward(res.status, NoError)
          ELSE IF IsFile(fs, path)
          THEN Send(Response(200, "static", "sendFile", "", [file |-> path], fs[path].data))
          ELSE IF IsDir(fs, path)
          THEN Send(Response(301, "static", "redirect", "", [file |-> path], <<>>))
          ELSE Forward(res.status, NoError)
    /\ UNCHANGED <<argv, call, script, cmd, fs, env, app, req>>

\* app.get("*", ...): res.sendFile of dist/index.html
SendIndex ==
    /\ cmd = "app" /\ AtLayer("sendIndex")
    /\ LET index == PathJoin(outputDir, "index.html")
       IN IF IsFile(fs, index)
          THEN Send(Response(200, "sendIndex", "sendFile", "", [file |-> index], fs[index].data))
          ELSE Forward(res.status, SendError(index))
    /\ UNCHANGED <<argv, call, script, cmd, fs, env, app, req>>

\* the pages routes/index.js has a route for
RoutePages == [k \in {<<>>, <<"about">>, <<"contact">>} |->
                 IF k = <<>> THEN [view |-> "index.ejs", title |-> Str("Home")]
                 ELSE IF k = <<"about">> THEN [view |-> "about.ejs", title |-> Str("About")]
                 ELSE [view |-> "contact.ejs", title |-> Str("Contact")]]

\* the user of router.get("/profile") in routes/index.js
user ==
    [name |-> OrElse("USER_NAME", JoeBloggs),
     id |-> OrElse("USER_ID", DefaultId),
     key |-> IF IsSet("USER_KEY") /\ env["USER_KEY"] # <<>>
             THEN split(env["USER_KEY"], ",") ELSE DefaultKey]

\* the user with the first word of the name taken as it is
UserFirstWord ==
    LET rawName == OrElse("USER_NAME", JoeBloggs)
    IN [name |-> capitalize(JsString(rawName)),
        firstname |-> split(rawName, " ")[1],
        id |-> OrElse("USER_ID", DefaultId),
        key |-> IF IsSet("USER_KEY") /\ env["USER_KEY"] # <<>>
                THEN split(env["USER_KEY"], ",") ELSE DefaultKey]

\* the user of router.get("/profile") in the revision with capitalize
UserCapitalized ==
    LET rawName == OrElse("USER_NAME", JoeBloggs)
    IN [name |-> capitalize(JsString(rawName)),
        firstname |-> capitalize(JsString(split(rawName, " ")[1])),
        id |-> OrElse("USER_ID", DefaultId),
        key |-> IF IsSet("USER_KEY") /\ env["USER_KEY"] # <<>>
                THEN split(env["USER_KEY"], ",") ELSE DefaultKey]

\* app.use("/", indexRouter): the router of routes/index.js
IndexRouter ==
    /\ cmd = "app" /\ AtLayer("indexRouter")
    /\ IF req.method # "GET" THEN Forward(res.status, NoError)
       ELSE IF req.url \in DOMAIN RoutePages
       THEN IF app.router = RoutesComponents
            THEN Send(Response(200, "indexRouter", "send", "", [title |-> <<>>],
                               <<[t |-> "components", v |-> req.url]>>))
            ELSE RenderView(200, RoutePages[req.url].view,
                            [title |-> RoutePages[req.url].title])
       ELSE IF req.url = <<"profile">> /\ app.router = RoutesProfile
       THEN RenderView(200, "profile.ejs", [user |-> user])
       ELSE IF req.url = <<"profile">> /\ app.router = RoutesCapitalize
       THEN RenderView(200, "profile.ejs",
                       [user |-> UserCapitalized,
                        title |-> UserCapitalized.name \o ProfileSuffix])
       ELSE Forward(res.status, NoError)
    /\ UNCHANGED <<argv, call, script, cmd, fs, env, app, req>>

\* app.get("/profile", ...) of src/app.js: USER_KEY is split as it is
Profile ==
    /\ cmd = "app" /\ AtLayer("profile")
    /\ IF ~IsSet("USER_KEY") THEN Forward(res.status, SplitOfUndefined)
       ELSE RenderView(200, "profile.ejs",
                       [user |-> [name |-> OrElse("USER_NAME", JoeBloggs),
                                  id |-> OrElse("USER_ID", DefaultId),
                                  key |-> split(env["USER_KEY"], ",")]])
    /\ UNCHANGED <<argv, call, script, cmd, fs, env, app, req>>

\* the custom 404 handler: next(createError(404))
NotFound ==
    /\ cmd = "app" /\ AtLayer("notFound")
    /\ Forward(res.status, NotFoundError)
    /\ UNCHANGED <<argv, call, script, cmd, fs, env, app, req>>

\* req.app.get("env"): NODE_ENV is not set, which Express reads as
\* development
AppEnv == "development"

\* DEBUG taken for "true" in any case of its letters
DebugAnyCase == IsSet("DEBUG") /\ toLowerCase(env["DEBUG"]) = <<"t", "r", "u", "e">>

\* process.env.DEBUG === "true"
Debug == IsSet("DEBUG") /\ env["DEBUG"] = <<"t", "r", "u", "e">>

\* the error handler: res.locals.message and res.locals.error are set, the
\* status is err.status || 500, and the error view is rendered; the DEBUG
\* revision also passes error and debug
ErrorHandler ==
    /\ cmd = "app" /\ AtLayer("errorHandler")
    /\ LET locals == [message |-> nextErr.message,
                      error |-> IF AppEnv = "development" THEN nextErr ELSE <<>>]
           options == [title |-> Str("Error"),
                       status |-> Str(ToString(StatusOf(nextErr))),
                       message |-> nextErr.message]
           debug == [error |-> nextErr, debug |-> Debug]
       IN RenderView(StatusOf(nextErr), "error.ejs",
                     Merge(locals, IF app.main = AppDebug THEN Merge(options, debug) ELSE options))
    /\ UNCHANGED <<argv, call, script, cmd, fs, env, app, req>>

\* no layer is left: Express's final handler answers, with 404 where there
\* is no error, else with the status of the error, else with the error
\* status already set on the response, else with 500
FinalHandler ==
    /\ cmd = "app" /\ pc = "routing" /\ layer = Len(Middleware(app.main)) + 1
    /\ res' = Response(IF nextErr.name = "" THEN 404
                       ELSE IF "status" \in DOMAIN nextErr THEN nextErr.status
                       ELSE IF res.status \in 400..599 THEN res.status
                       ELSE 500,
                       "finalhandler", "send", "", [title |-> <<>>], <<>>)
    /\ pc' = "responded"
    /\ UNCHANGED <<argv, call, script, cmd, fs, env, app, req, layer, nextErr, trail>>

\* the strings capitalize is called with: every string of up to MaxLen
\* characters out of a lower-case letter, an upper-case letter and the
\* space, and the two names of the documentation
CapitalizeArgs ==
    {Null, Undefined}
    \cup {JsString(s) : s \in UNION {[1..n -> {"a", "B", " "}] : n \in 0..MaxLen}}
    \cup {JsString(<<"j", "o", "e", " ", "b", "l", "o", "g", "g", "s">>),
          JsString(<<"m", "a", "r", "y", " ", "j", "a", "n", "e", " ", "d", "o", "e">>)}

\* capitalize(str) is called and returns
Capitalize ==
    /\ cmd = "capitalize" /\ pc = "called"
    /\ call' = [call EXCEPT !.result = capitalize(call.arg)]
    /\ pc' = "returned"
    /\ UNCHANGED <<argv, server, script, cmd, fs>>

-----------------------------------------------------------------------------
(* test/index.js, the script of "pnpm test" *)

\* capitalize of test/index.js: s.toLowerCase().replace(/\b./g, upper-case),
\* the character after every word boundary upper-cased
capitalize_test(s) ==
    LET lower == toLowerCase(s)
        IsWord(c) == \/ \E j \in 1..Len(LowerCase) : LowerCase[j] = c
                     \/ c \in {"0", "1", "2", "3", "4", "5", "6", "7", "8", "9", "_"}
        Boundary(k) == IF k = 1 THEN IsWord(lower[1])
                       ELSE IsWord(lower[k - 1]) # IsWord(lower[k])
    IN [k \in 1..Len(lower) |->
           IF Boundary(k) THEN toUpperCase(<<lower[k]>>)[1] ELSE lower[k]]

\* myName with a name made up when there is none to read
myNameOrDefault ==
    LET args == SubSeq(argv, 3, Len(argv))
    IN IF Len(args) >= 1 /\ args[1] # <<>> THEN [ok |-> TRUE, v |-> args[1]]
       ELSE IF IsSet("USER_NAME") THEN [ok |-> TRUE, v |-> split(env["USER_NAME"], " ")[1]]
       ELSE [ok |-> TRUE, v |-> <<"J", "o", "e">>]

\* var myName = args[0]; if (!!myName) { myName } else
\* { myName = process.env.USER_NAME.split(" ")[0] }: reading split of an
\* undefined USER_NAME throws
myName ==
    LET args == SubSeq(argv, 3, Len(argv))
    IN IF Len(args) >= 1 /\ args[1] # <<>> THEN [ok |-> TRUE, v |-> args[1]]
       ELSE IF IsSet("USER_NAME") THEN [ok |-> TRUE, v |-> split(env["USER_NAME"], " ")[1]]
       ELSE [ok |-> FALSE, v |-> <<>>]

\* lines 3-23: dotenv and car are loaded, process.argv is printed, the name
\* is chosen; an exception nothing catches is printed by node, which exits
\* with status 1
TestName ==
    /\ cmd = "test" /\ pc = "start"
    /\ stdout' = stdout \o [k \in 1..Len(argv) |-> <<"argv", k - 1, argv[k]>>]
    /\ IF myName.ok
       THEN /\ call' = [arg |-> JsString(myName.v), result |-> <<>>]
            /\ pc' = "named"
            /\ UNCHANGED <<stderr, err, exitCode>>
       ELSE /\ err' = Err("TypeError", <<"USER_NAME">>, <<>>)
            /\ stderr' = Append(stderr, [label |-> "Uncaught", err |-> err'])
            /\ exitCode' = 1
            /\ pc' = "exited"
            /\ UNCHANGED call
    /\ UNCHANGED <<argv, server, cmd, fs, fs0, dirOrder, run, idx, templateStr, html, stack, ops,
                   first, builds>>

\* lines 25-33: the greeting, the car, the id, and process.exit(0)
TestHello ==
    /\ cmd = "test" /\ pc = "named"
    /\ call' = [call EXCEPT !.result = capitalize_test(call.arg.v)]
    /\ stdout' = stdout \o <<<<"Process started">>,
                             <<"Hello", capitalize_test(call.arg.v)>>,
                             <<"My car is a">>,
                             <<"My car has wheels">>,
                             <<"what ID:@", IF IsSet("USER_ID") THEN env["USER_ID"]
                                            ELSE <<"undefined">>>>,
                             <<"Process terminated">>>>
    /\ exitCode' = 0
    /\ pc' = "exited"
    /\ UNCHANGED <<argv, server, cmd, fs, fs0, dirOrder, run, idx, templateStr, html, stack, ops,
                   stderr, err, first, builds>>

\* no script has run
NoScript ==
    /\ fs0 = fs
    /\ dirOrder = <<>>
    /\ run = 1
    /\ idx = 0
    /\ templateStr = <<>>
    /\ html = <<>>
    /\ stack = <<>>
    /\ ops = <<>>
    /\ stdout = <<>>
    /\ stderr = <<>>
    /\ err = NoErr
    /\ exitCode = -1
    /\ first = <<>>
    /\ builds = <<>>

\* no call of capitalize on its own
NoCall == [arg |-> Undefined, result |-> <<>>]

\* the application is up and no request has arrived
InitApp ==
    /\ cmd = "app"
    /\ app \in [main : {AppProfile, AppError, AppDebug},
                 router : {RoutesComponents, RoutesProfile, RoutesCapitalize}]
    /\ fs \in AppFileSystems(app)
    /\ env \in Environments
    /\ req = NoReq
    /\ res = NoRes
    /\ layer = 0
    /\ nextErr = NoError
    /\ trail = <<>>
    /\ pc = "listening"
    /\ NoScript
    /\ argv = <<>>
    /\ call = NoCall

\* no application runs while a script does
NoApp ==
    /\ env = <<>>
    /\ app = [main |-> "", router |-> ""]
    /\ req = NoReq
    /\ res = NoRes
    /\ layer = 0
    /\ nextErr = NoError
    /\ trail = <<>>

-----------------------------------------------------------------------------
(* The specification *)

InitBuild ==
    /\ cmd = "generate-static"
    /\ fs \in BuildFileSystems
    /\ dirOrder \in DirOrders(fs, publicDir)

InitBuildOutput ==
    /\ cmd = "generate-static-output"
    /\ fs \in BuildFileSystems
    /\ dirOrder \in DirOrders(fs, publicDir)

InitIcons ==
    /\ cmd = "makeicons"
    /\ fs \in IconFileSystems
    /\ dirOrder = <<>>

InitIco ==
    /\ cmd = "generate-favicons-error"
    /\ fs \in IcoFileSystems
    /\ dirOrder = <<>>

\* the loop bodies of the pages, each about to read its template
InitSideBySide ==
    /\ cmd = "pages-side-by-side"
    /\ fs \in SideFileSystems
    /\ fs0 = fs
    /\ builds = [k \in 1..Len(pages) |-> Activation("read", <<>>, <<>>)]
    /\ pc = "pages"
    /\ dirOrder = <<>>
    /\ run = 1
    /\ idx = 0
    /\ templateStr = <<>>
    /\ html = <<>>
    /\ stack = <<>>
    /\ ops = <<>>
    /\ stdout = <<>>
    /\ stderr = <<>>
    /\ err = NoErr
    /\ exitCode = -1
    /\ first = <<>>
    /\ NoApp
    /\ argv = <<>>
    /\ call = NoCall

InitScript ==
    /\ (InitBuild \/ InitBuildOutput \/ InitIcons \/ InitIco)
    /\ fs0 = fs
    /\ pc = "start"
    /\ run = 1
    /\ idx = 0
    /\ templateStr = <<>>
    /\ html = <<>>
    /\ stack = <<>>
    /\ ops = <<>>
    /\ stdout = <<>>
    /\ stderr = <<>>
    /\ err = NoErr
    /\ exitCode = -1
    /\ first = <<>>
    /\ builds = <<>>
    /\ NoApp
    /\ argv = <<>>
    /\ call = NoCall

\* capitalize is about to be called with one of the arguments
InitCapitalize ==
    /\ cmd = "capitalize"
    /\ call \in [arg : CapitalizeArgs, result : {<<>>}]
    /\ pc = "called"
    /\ fs = MkTree({}, {})
    /\ NoScript
    /\ NoApp
    /\ argv = <<>>

\* node ./test/index [name ...], process.env as dotenv.config() leaves it
InitTest ==
    /\ cmd = "test"
    /\ argv \in {<<<<"n", "o", "d", "e">>, <<"i", "n", "d", "e", "x">>>> \o args :
                  args \in {<<>>, <<<<>>>>, <<<<"a", "n", "n">>>>,
                            <<<<"b", "O", "B", " ", "c">>, <<"x">>>>}}
    /\ env \in Environments \cup {[n \in {"USER_NAME"} |-> v] : v \in {<<>>, <<" ", "x">>}}
    /\ call = NoCall
    /\ pc = "start"
    /\ fs = MkTree({}, {})
    /\ NoScript
    /\ app = [main |-> "", router |-> ""]
    /\ req = NoReq
    /\ res = NoRes
    /\ layer = 0
    /\ nextErr = NoError
    /\ trail = <<>>

Init == InitScript \/ InitSideBySide \/ InitApp \/ InitCapitalize \/ InitTest

Next ==
    \/ GsStart
    \/ GsReadTemplate
    \/ GsRender
    \/ GsMkdirPage
    \/ GsWritePage
    \/ OutStart
    \/ OutReadTemplate
    \/ OutRender
    \/ OutWritePage
    \/ CopyMkdir
    \/ CopyReaddir
    \/ CopyEntry
    \/ CopyReturn
    \/ PngStart
    \/ PngTarget
    \/ IcoStart
    \/ IcoTargetIco
    \/ IcoTargetPng
    \/ Catch
    \/ Exit
    \/ Rerun
    \/ \E k \in 1..Len(pages) : SideReadTemplate(k)
    \/ \E k \in 1..Len(pages) : SideRender(k)
    \/ \E k \in 1..Len(pages) : SideMkdirPage(k)
    \/ \E k \in 1..Len(pages) : SideWritePage(k)
    \/ Request
    \/ PassThrough
    \/ Static
    \/ SendIndex
    \/ IndexRouter
    \/ Profile
    \/ NotFound
    \/ ErrorHandler
    \/ FinalHandler
    \/ Capitalize
    \/ TestName
    \/ TestHello

Spec == Init /\ [][Next]_vars

\* one run of generate-static.js: every continuation runs once the call it
\* awaits has settled, so a step that can be taken is taken
InitBuildRun == Init /\ cmd = "generate-static"

NextBuildRun ==
    \/ GsStart
    \/ GsReadTemplate
    \/ GsRender
    \/ GsMkdirPage
    \/ GsWritePage
    \/ CopyMkdir
    \/ CopyReaddir
    \/ CopyEntry
    \/ CopyReturn
    \/ Catch
    \/ Exit

BuildRunSpec == InitBuildRun /\ [][NextBuildRun]_vars /\ WF_vars(NextBuildRun)

-----------------------------------------------------------------------------
(* Properties of the static build *)

Range(q) == {q[k] : k \in 1..Len(q)}

LastOp == ops[Len(ops)]

\* the positions in ops of the calls named name made for page k
OpsOf(name, k) == {b \in 1..Len(ops) : ops[b].op = name /\ ops[b].page = k}

\* <outputRoot>/<folder>/index.html of manifest entry k, spelled out
IndexHtml(k) == <<"dist">> \o Segs(pages[k].folder) \o <<"index.html">>

\* src/views/<file> of manifest entry k, spelled out
TemplateOf(k) == <<"src", "views", pages[k].file>>

\* generateStaticFiles has completed without error
BuildDone == cmd = "generate-static" /\ pc \in {"settled", "exited"} /\ err = NoErr

\* p is in f2 what it was in f1: the same node, or missing in both
SameAt(f1, f2, p) == (p \in DOMAIN f1 <=> p \in DOMAIN f2) /\ (p \in DOMAIN f1 => f1[p] = f2[p])

\* C1: after generateStaticFiles completes without error, every entry of the
\* manifest has a non-empty file <outputRoot>/<folder>/index.html.
C1_EveryPageWritten ==
    BuildDone =>
        \A k \in 1..Len(pages) : IsFile(fs, IndexHtml(k)) /\ fs[IndexHtml(k)].data # <<>>

\* C1 witness: a build that found no dist directory has completed
C1_Witness == BuildDone /\ run = 1 /\ ~Exists(fs0, <<"dist">>)

\* C2: every page write the build attempts, in either revision, goes to an
\* index.html, and before it the build has made the mkdir of the directory
\* the write goes into.
C2_WriteIntoEnsuredDirectory ==
    cmd \in Builds =>
        \A b \in 1..Len(ops) :
            ops[b].op = "writeFile" =>
                /\ ops[b].path[Len(ops[b].path)] = "index.html"
                /\ \E a \in 1..(b - 1) : ops[a] = Op("mkdir", Parent(ops[b].path), ops[a].page)

\* In the revision whose pages carry a folder, every page write goes to
\* <outputRoot>/<folder>/index.html (outputRoot itself for the folder ""), and
\* the call right before it is the mkdir of that very directory for the same
\* entry; when the write is about to be made the directory exists.
FolderBuild_MkdirBeforeWrite ==
    cmd = "generate-static" =>
        /\ \A b \in 1..Len(ops) :
              ops[b].op = "writeFile" =>
                  /\ ops[b].path = IndexHtml(ops[b].page)
                  /\ b > 1
                  /\ ops[b - 1] = Op("mkdir", Parent(IndexHtml(ops[b].page)), ops[b].page)
        /\ pc = "write" => IsDir(fs, Parent(IndexHtml(idx)))
        /\ IndexHtml(1) = <<"dist", "index.html">>
        /\ IndexHtml(2) = <<"dist", "about", "index.html">>

\* about/index.html has been written by that revision into a directory that
\* was not there when the run began, after the root page
FolderBuild_Witness ==
    /\ cmd = "generate-static" /\ run = 1
    /\ OpsOf("writeFile", 1) # {} /\ OpsOf("writeFile", 2) # {}
    /\ ~Exists(fs0, <<"dist", "about">>)
    /\ IsFile(fs, <<"dist", "about", "index.html">>)

\* C3: when loading or rendering the template of entry k fails, the run is
\* over: no call is made for an entry after k, no call of the asset copy is
\* made, entry k is neither given a directory nor written, and the failing
\* call was made once.
C3_TemplateFailureAborts ==
    (cmd = "generate-static" /\ err # NoErr /\ LastOp.op \in {"readFile", "render"}) =>
        LET k == LastOp.page IN
        /\ pc \in {"rejected", "settled", "exited"}
        /\ stack = <<>>
        /\ \A b \in 1..Len(ops) : ops[b].page <= k /\ (ops[b].page = 0 => b = 1)
        /\ Cardinality(OpsOf("readFile", k)) = 1
        /\ Cardinality(OpsOf("render", k)) <= 1
        /\ OpsOf("mkdir", k) = {} /\ OpsOf("writeFile", k) = {}

\* C3 witness: the run has ended on the failure of the second entry's
\* template, the first page being written
C3_Witness ==
    /\ cmd = "generate-static" /\ pc = "exited" /\ err # NoErr
    /\ LastOp.op \in {"readFile", "render"} /\ LastOp.page = 2
    /\ OpsOf("writeFile", 1) # {}

\* C4: when a template reads a variable its data does not hold, the failing
\* call is the render of that entry, the entry's index.html is what it was
\* before the run, and the error printed names the entry's template file.
C4_UndefinedVariableAborts ==
    (cmd = "generate-static" /\ err.code = "ReferenceError") =>
        LET k == LastOp.page IN
        /\ LastOp = Op("render", TemplateOf(k), k)
        /\ \A b \in 1..Len(ops) : ops[b].page = k => ops[b].op \in {"readFile", "render"}
        /\ SameAt(fs0, fs, IndexHtml(k))
        /\ pc \in {"rejected", "settled", "exited"}
        /\ pc \in {"settled", "exited"} =>
              /\ Len(stderr) = 1
              /\ stderr[1].err.code = "ReferenceError"
              /\ TemplateOf(k) \in Range(stderr[1].err.files)

\* C4 witness: about.ejs read user, which its entry does not carry, and the
\* error has been printed
C4_Witness ==
    /\ cmd = "generate-static" /\ pc = "exited"
    /\ err.code = "ReferenceError" /\ err.path = <<"user">>
    /\ LastOp.page = 2
    /\ ~Exists(fs, <<"dist", "about", "index.html">>)

\* C5: a run in which a step failed exits with a status other than 0, and
\* status 0 means that every step succeeded.
C5_FailureExitsNonZero == pc = "exited" => (exitCode = 0 <=> err = NoErr)

\* C6: the calls made for the pages come page by page in manifest order, the
\* template of entry k + 1 being read right after entry k was written; the
\* "Generated" lines are those of the manifest, in its order; a call of the
\* asset copy is made only when every page has been written, and the copy
\* into <outputRoot>/public is started at most once, once in a completed run.
C6_PagesInOrderThenAssets ==
    cmd = "generate-static" =>
        /\ \A a, b \in 1..Len(ops) :
              (a < b /\ ops[a].page > 0 /\ ops[b].page > 0) => ops[a].page <= ops[b].page
        /\ \A b \in 1..Len(ops) :
              (ops[b].op = "readFile" /\ ops[b].page > 1) =>
                  ops[b - 1] = Op("writeFile", IndexHtml(ops[b].page - 1), ops[b].page - 1)
        /\ Len(stdout) <= Len(pages)
        /\ \A k \in 1..Len(stdout) :
              /\ stdout[k] = <<"Generated",
                               IF pages[k].folder = "" THEN "root" ELSE pages[k].folder,
                               "index.html">>
              /\ OpsOf("writeFile", k) # {}
        /\ \A b \in 2..Len(ops) :
              ops[b].page = 0 =>
                  /\ Len(stdout) = Len(pages)
                  /\ \A k \in 1..Len(pages) :
                        \E a \in 1..(b - 1) : ops[a] = Op("writeFile", IndexHtml(k), k)
        /\ Cardinality({b \in 1..Len(ops) : ops[b] = Op("mkdir", <<"dist", "public">>, 0)})
              <= 1
        /\ BuildDone =>
              Cardinality({b \in 1..Len(ops) : ops[b] = Op("mkdir", <<"dist", "public">>, 0)})
                  = 1

\* C6 witness: a completed build whose asset copy copied files
C6_Witness ==
    /\ BuildDone /\ Len(stdout) = 4
    /\ \E b \in 1..Len(ops) : ops[b].op = "copyFile"

\* the path under <outputRoot>/public that mirrors p of src/public
DestOf(p) == <<"dist", "public">> \o SubSeq(p, 3, Len(p))

\* C7: after copyDir(src/public, <outputRoot>/public) completes without
\* error, every file and every directory at any depth under src/public is at
\* the same relative path under <outputRoot>/public, a file with the same data.
C7_AssetsMirrored ==
    BuildDone =>
        \A p \in DOMAIN fs :
            IsUnder(p, <<"src", "public">>) =>
                DestOf(p) \in DOMAIN fs /\ fs[DestOf(p)] = fs[p]

\* C7 witness: the copy has completed over a destination that held another
\* style.css one directory down
C7_Witness ==
    /\ BuildDone /\ run = 1
    /\ IsFile(fs0, <<"dist", "public", "styles", "style.css">>)
    /\ IsFile(fs, <<"src", "public", "styles", "style.css">>)
    /\ fs0[<<"dist", "public", "styles", "style.css">>]
          # fs[<<"src", "public", "styles", "style.css">>]

\* C8: when the build is run again on what a first run left, templates and
\* assets being the same, the tree after the second run is the tree the
\* first run left.
C8_RebuildIdempotent ==
    (cmd = "generate-static" /\ run >= 2 /\ pc = "exited") => fs = first.fs

\* C8 witness: a second build has completed over a dist that held an earlier
\* build's files before the first
C8_Witness ==
    /\ BuildDone /\ run = 2 /\ pc = "exited"
    /\ IsFile(fs, <<"dist", "old", "index.html">>)

\* C9: every internal link and asset URL of every page the build has written
\* begins with /node.it.
C9_LinksCarryBasePath ==
    cmd = "generate-static" =>
        \A k \in 1..Len(pages) :
            (OpsOf("writeFile", k) # {} /\ IsFile(fs, IndexHtml(k))) =>
                \A j \in 1..Len(fs[IndexHtml(k)].data) :
                    fs[IndexHtml(k)].data[j].t = "href" =>
                        fs[IndexHtml(k)].data[j].v[1] = "/node.it"

-----------------------------------------------------------------------------
(* Properties of the icon pipeline *)

IconsDone == cmd = "makeicons" /\ pc \in {"settled", "exited"} /\ err = NoErr

IconFile(name) == <<"src", "public", "icons", name>>

\* favicon.svg as a PNG raster of n x n pixels
Png(n) == FileNode(<<[t |-> "png", v |-> <<"favicon">>, width |-> n, height |-> n]>>)

\* the targets and the output directory of the revision that runs
Targets == IF cmd = "makeicons" THEN sizes ELSE icoSizes

TargetDir == IF cmd = "makeicons" THEN iconsOutputDir ELSE tempOutputDir

\* C10: with a valid favicon.svg (and no directory in the place of an output
\* file) generateFavicons, in either revision, does not fail; when it has
\* completed, the first call it made is the mkdir of its output directory and
\* the file of each of the three targets is the PNG raster of its own
\* size x size.
C10_ThreeIcons ==
    cmd \in {"makeicons", "generate-favicons-error"} =>
        /\ (/\ IsFile(fs0, IconFile("favicon.svg"))
            /\ IsSvg(fs0[IconFile("favicon.svg")].data)
            /\ \A k \in 1..Len(Targets) : ~IsDir(fs0, PathJoin(TargetDir, Targets[k].output)))
           => err = NoErr
        /\ (pc \in {"settled", "exited"} /\ err = NoErr) =>
              /\ ops[1] = Op("mkdir", TargetDir, 0)
              /\ Len(Targets) = 3
              /\ \A k \in 1..Len(Targets) :
                    /\ IsFile(fs, PathJoin(TargetDir, Targets[k].output))
                    /\ fs[PathJoin(TargetDir, Targets[k].output)] = Png(Targets[k].size)

\* In the revision whose targets are all PNG: with a valid favicon.svg (and
\* no directory in the place of an output file) generateFavicons does not
\* fail; when it has completed, it has made one mkdir of the output directory
\* and then one write per target, to favicon-32.png, apple-touch-icon.png and
\* icon-192.png in that order, each file is the PNG raster of its own
\* size x size, and nothing else in the file system has changed.
PngRevision_ThreeIcons ==
    cmd = "makeicons" =>
        /\ (/\ IsFile(fs0, IconFile("favicon.svg"))
            /\ IsSvg(fs0[IconFile("favicon.svg")].data)
            /\ \A n \in {"favicon-32.png", "apple-touch-icon.png", "icon-192.png"} :
                  ~IsDir(fs0, IconFile(n)))
           => err = NoErr
        /\ \A b \in 1..Len(ops) :
              ops[b].op = "toFile" => ops[1] = Op("mkdir", <<"src", "public", "icons">>, 0)
        /\ IconsDone =>
              /\ ops = <<Op("mkdir", <<"src", "public", "icons">>, 0),
                         Op("toFile", IconFile("favicon-32.png"), 1),
                         Op("toFile", IconFile("apple-touch-icon.png"), 2),
                         Op("toFile", IconFile("icon-192.png"), 3)>>
              /\ fs[IconFile("favicon-32.png")] = Png(32)
              /\ fs[IconFile("apple-touch-icon.png")] = Png(180)
              /\ fs[IconFile("icon-192.png")] = Png(192)
              /\ \A p \in DOMAIN fs \cup DOMAIN fs0 :
                    p \notin {IconFile("favicon-32.png"), IconFile("apple-touch-icon.png"),
                              IconFile("icon-192.png")}
                        => SameAt(fs0, fs, p)

\* a first icon run of that revision has completed where icon-192.png was a
\* file of an earlier run and the two others were not there
PngRevision_Witness ==
    /\ IconsDone /\ run = 1
    /\ IsFile(fs0, IconFile("icon-192.png"))
    /\ ~Exists(fs0, IconFile("favicon-32.png"))
    /\ ~Exists(fs0, IconFile("apple-touch-icon.png"))

\* C11: the icon targets are written in the order of the list, one write per
\* target; when the write of target k fails the run is over: no call is made
\* for a target after k, the files of the targets before k are the icons the
\* run wrote, and the files of k and of the targets after it are what they
\* were before the run.
C11_IconFailureAborts ==
    cmd = "makeicons" =>
        /\ \A b \in 2..Len(ops) : ops[b] = Op("toFile", iconPath(sizes[b - 1]), b - 1)
        /\ (err # NoErr /\ LastOp.op = "toFile") =>
              LET k == LastOp.page IN
              /\ pc \in {"rejected", "settled", "exited"}
              /\ Len(ops) = k + 1
              /\ \A j \in 1..(k - 1) : fs[iconPath(sizes[j])] = Png(sizes[j].size)
              /\ \A j \in k..Len(sizes) : SameAt(fs0, fs, iconPath(sizes[j]))

\* C11 witness: the run has ended on the failure of the third target, a
\* directory being in its place, after it made the files of the first two
C11_Witness ==
    /\ cmd = "makeicons" /\ run = 1 /\ pc = "exited" /\ err # NoErr
    /\ LastOp = Op("toFile", IconFile("icon-192.png"), 3)
    /\ ~Exists(fs0, IconFile("favicon-32.png")) /\ IsFile(fs, IconFile("favicon-32.png"))
    /\ ~Exists(fs0, IconFile("apple-touch-icon.png"))
    /\ IsFile(fs, IconFile("apple-touch-icon.png"))

-----------------------------------------------------------------------------
(* What a run reports *)

\* the run has ended on a failure and the catch handler has run
Failed == pc \in {"settled", "exited"} /\ err # NoErr

\* C12: when a build or an icon run has failed, one error has been printed
\* and it is the reason of the failure; for a build it carries the path the
\* failing call was about, for a render the template of the page; for an icon
\* run the last line printed before it is the "Processing" line of the
\* failing target with its size.  At every moment, every page and every icon
\* whose file the run has changed or written has its "Generated" line.
C12_FailureReported ==
    /\ (cmd \in {"generate-static", "makeicons"} /\ Failed) =>
          /\ stderr = <<[label |-> "Error:", err |-> err]>>
          /\ LastOp.op # "render" => err.path = LastOp.path
    /\ (cmd = "generate-static" /\ Failed /\ LastOp.op = "render") =>
          TemplateOf(LastOp.page) \in Range(err.files)
    /\ (cmd = "generate-static" /\ Failed /\ LastOp.page > 0) =>
          LastOp.path \in {TemplateOf(LastOp.page), IndexHtml(LastOp.page),
                           Parent(IndexHtml(LastOp.page))}
    /\ (cmd = "makeicons" /\ Failed /\ LastOp.op = "toFile") =>
          stdout[Len(stdout)] =
              <<"Processing", sizes[LastOp.page].output, sizes[LastOp.page].size>>
    /\ cmd = "generate-static" =>
          \A k \in 1..Len(pages) :
              (\/ ~SameAt(fs0, fs, IndexHtml(k))
               \/ \E b \in OpsOf("writeFile", k) : b < Len(ops) \/ err = NoErr)
                  => \E n \in 1..Len(stdout) :
                         stdout[n] = <<"Generated",
                                       IF pages[k].folder = "" THEN "root" ELSE pages[k].folder,
                                       "index.html">>
    /\ cmd = "makeicons" =>
          \A k \in 1..Len(sizes) :
              (\/ ~SameAt(fs0, fs, iconPath(sizes[k]))
               \/ \E b \in OpsOf("toFile", k) : b < Len(ops) \/ err = NoErr)
                  => \E n \in 1..Len(stdout) : stdout[n] = <<"Generated", sizes[k].output>>

\* C12 witness: a build has failed on the third page after writing two, and
\* the error has been printed
C12_Witness ==
    /\ cmd = "generate-static" /\ Failed /\ run = 1
    /\ LastOp.page = 3
    /\ ~SameAt(fs0, fs, IndexHtml(1)) /\ ~SameAt(fs0, fs, IndexHtml(2))

\* C12 witness for the icons: the run has failed on the second target after
\* writing the first
C12_WitnessIcons ==
    /\ cmd = "makeicons" /\ Failed /\ run = 1
    /\ LastOp = Op("toFile", IconFile("apple-touch-icon.png"), 2)
    /\ ~SameAt(fs0, fs, IconFile("favicon-32.png"))

\* the path under src/public that p of <outputRoot>/public mirrors
SrcOf(p) == <<"src", "public">> \o SubSeq(p, 3, Len(p))

\* a call of the asset copy has failed
CopyFailed == cmd = "generate-static" /\ err # NoErr /\ Len(ops) > 1 /\ LastOp.page = 0

\* C13: when a call of the asset copy fails, all pages being written, the
\* run is over and the failure is printed; every <folder>/index.html still
\* holds the rendering of its template, and every asset file copied before
\* the failure is still there with the data of its source.
C13_CopyFailureKeepsPages ==
    CopyFailed =>
        /\ pc \in {"rejected", "settled", "exited"}
        /\ pc \in {"settled", "exited"} => stderr = <<[label |-> "Error:", err |-> err]>>
        /\ \A k \in 1..Len(pages) :
              /\ IsFile(fs, IndexHtml(k))
              /\ fs[IndexHtml(k)].data =
                    Render(fs, fs[TemplateOf(k)].data, RenderData(pages[k])).html
        /\ \A b \in 1..(Len(ops) - 1) :
              ops[b].op = "copyFile" =>
                  /\ IsFile(fs, ops[b].path)
                  /\ fs[ops[b].path].data = fs[Resolve(fs, SrcOf(ops[b].path))].data

\* C13 witness: the asset copy has failed after copying a file, over pages
\* that were not there before the run, and the process has ended
C13_Witness ==
    /\ CopyFailed /\ pc = "exited" /\ run = 1
    /\ \E b \in 1..(Len(ops) - 1) : ops[b].op = "copyFile"
    /\ ~Exists(fs0, IndexHtml(2))

-----------------------------------------------------------------------------
(* Pages side by side *)

\* every activation has written its page
AllDone == cmd = "pages-side-by-side" /\ \A k \in 1..Len(pages) : builds[k].pc = "done"

\* C14: the folders of the manifest are pairwise distinct, and so are the
\* output paths, none of them under <outputRoot>/public; the loop, run one
\* page after another, leaves the tree BuildPages computes; and when the loop
\* bodies take their steps in any order and every page gets written, the tree
\* is that same tree.
C14_AnyInterleavingSameTree ==
    /\ \A j, k \in 1..Len(pages) :
          j # k => /\ pages[j].folder # pages[k].folder
                   /\ outputPath(pages[j]) # outputPath(pages[k])
    /\ \A k \in 1..Len(pages) :
          /\ outputPath(pages[k]) = IndexHtml(k)
          /\ ~IsUnder(outputPath(pages[k]), <<"dist", "public">>)
    /\ (/\ cmd = "generate-static" /\ Len(ops) > 1 /\ LastOp.page > 0
        /\ (err # NoErr \/ LastOp = Op("writeFile", IndexHtml(Len(pages)), Len(pages))))
           => fs = BuildPages(Mkdir(fs0, outputDir), 1)
    /\ AllDone => fs = BuildPages(fs0, 1)

\* C14 witness: every page has been written, the last page of the manifest
\* first and the root page last
C14_Witness ==
    /\ AllDone
    /\ ops[1].page = 4 /\ ops[2].page = 2 /\ ops[3].page = 3 /\ ops[4].page = 1
    /\ ~Exists(fs0, IndexHtml(4))

-----------------------------------------------------------------------------
(* Symbolic links in the assets *)

\* C15: every copyDir activation is on a path at or below src/public, a
\* nested one on a real directory, and every file the asset copy has written under
\* <outputRoot>/public holds the data of a real file at the same relative
\* path under src/public: nothing is taken from outside src/public.
C15_NothingOutsideSrc ==
    cmd = "generate-static" =>
        /\ \A n \in 1..Len(stack) :
              /\ IsUnder(stack[n].src, <<"src", "public">>)
              /\ n > 1 => IsDir(fs, stack[n].src)
        /\ \A b \in 1..Len(ops) :
              (ops[b].op = "copyFile" /\ (b < Len(ops) \/ err = NoErr)) =>
                  /\ IsFile(fs, SrcOf(ops[b].path))
                  /\ fs[ops[b].path].data = fs[SrcOf(ops[b].path)].data

-----------------------------------------------------------------------------
(* What the build leaves alone *)

\* the paths the build writes a file to: the pages and the mirror of the assets
BuildTargets ==
    {IndexHtml(k) : k \in 1..Len(pages)}
        \cup {DestOf(p) : p \in {q \in DOMAIN fs : IsUnder(q, <<"src", "public">>)}}

\* C16: at every moment of a build, every file and directory that was there
\* when the run began is still there, as a file or as a directory as before;
\* what is not under <outputRoot> is unchanged, and so is every file under it
\* that is neither a page nor the mirror of an asset; what the run has added
\* is under <outputRoot>; and a page written or an asset copied holds the new
\* data whatever was at its path before.
C16_NothingDeleted ==
    cmd = "generate-static" =>
        /\ \A p \in DOMAIN fs0 :
              /\ p \in DOMAIN fs /\ fs[p].kind = fs0[p].kind
              /\ (~IsUnder(p, <<"dist">>) \/ p \notin BuildTargets) => fs[p] = fs0[p]
        /\ \A p \in DOMAIN fs : p \notin DOMAIN fs0 => IsUnder(p, <<"dist">>)
        /\ \A b \in 1..Len(ops) :
              (b < Len(ops) \/ err = NoErr) =>
                  /\ ops[b].op = "writeFile" =>
                        fs[ops[b].path] =
                            FileNode(Render(fs, fs[TemplateOf(ops[b].page)].data,
                                            RenderData(pages[ops[b].page])).html)
                  /\ ops[b].op = "copyFile" =>
                        fs[ops[b].path] = FileNode(fs[Resolve(fs, SrcOf(ops[b].path))].data)

\* C16 witness: a build has completed over the output of an earlier one: the
\* root page and style.css are overwritten, old/index.html and gone.css,
\* which nothing produces any more, are as they were
C16_Witness ==
    /\ BuildDone /\ run = 1
    /\ IsFile(fs0, <<"dist", "index.html">>)
    /\ IsFile(fs0, <<"dist", "public", "styles", "style.css">>)
    /\ IsFile(fs, <<"dist", "public", "styles", "style.css">>)
    /\ IsFile(fs0, <<"dist", "old", "index.html">>)
    /\ IsFile(fs0, <<"dist", "public", "gone.css">>)
    /\ fs0[<<"dist", "index.html">>] = FileNode(Stale)
    /\ fs[<<"dist", "index.html">>] # FileNode(Stale)
    /\ fs0[<<"dist", "public", "styles", "style.css">>] = FileNode(Stale)
    /\ fs[<<"dist", "public", "styles", "style.css">>] = FileNode(Css)
    /\ fs[<<"dist", "old", "index.html">>] = FileNode(Stale)
    /\ fs[<<"dist", "public", "gone.css">>] = FileNode(Stale)

-----------------------------------------------------------------------------
(* The profile page *)

\* the profile page this run has written
ProfileWritten ==
    /\ cmd = "generate-static"
    /\ \E b \in OpsOf("writeFile", 4) : b < Len(ops) \/ err = NoErr

ProfileHtml == fs[<<"dist", "profile", "index.html">>].data

\* the text of token n of the profile page, "" where there is no such token
\* or it is not text of one piece
TextAt(n) ==
    IF n \in 1..Len(ProfileHtml) /\ ProfileHtml[n].t = "text" /\ Len(ProfileHtml[n].v) = 1
    THEN ProfileHtml[n].v[1] ELSE ""

\* the list items of the page, in page order
ListItems == SelectSeq(ProfileHtml, LAMBDA tok : tok.t = "li")

\* the page has all of: the id in its paragraph, and one list item per element
\* of key, in key order, between <ul> and </ul>
IdAndHobbies ==
    /\ \E n \in 1..Len(ProfileHtml) :
          /\ TextAt(n) = "</p><p>ID: " /\ TextAt(n + 1) = "239482"
          /\ TextAt(n + 2) = "</p><h2>Hobbies</h2><ul>"
          /\ ProfileHtml[n + 3] = [t |-> "li", v |-> <<"reading">>]
          /\ ProfileHtml[n + 4] = [t |-> "li", v |-> <<"gaming">>]
          /\ ProfileHtml[n + 5] = [t |-> "li", v |-> <<"hiking">>]
          /\ TextAt(n + 6) = "</ul></main>"
    /\ Len(ListItems) = 3

\* C17: the profile page the build writes has the heading "Joe Bloggs's
\* Profile", the id 239482 and one list item per element of key, in key
\* order, each once.
C17_ProfileHeadingFullName ==
    ProfileWritten =>
        /\ \E n \in 1..Len(ProfileHtml) :
              /\ TextAt(n) = "<main><h1>" /\ TextAt(n + 1) = "Joe Bloggs"
              /\ TextAt(n + 2) \in {"'s Profile</h1><p>ID: ", "'s Profile</h1><p>Full Name: "}
        /\ IdAndHobbies

\* C17 as amended: the profile page the build writes has the heading "Joe's
\* Profile", the full name "Joe Bloggs" after it, the id 239482 and one list
\* item per element of key, in key order, each once; and a build that
\* completes has written it.
C17_ProfileHeadingFirstName ==
    /\ BuildDone => ProfileWritten
    /\ ProfileWritten =>
          /\ \E n \in 1..Len(ProfileHtml) :
                /\ TextAt(n) = "<main><h1>" /\ TextAt(n + 1) = "Joe"
                /\ TextAt(n + 2) = "'s Profile</h1><p>Full Name: "
                /\ TextAt(n + 3) = "Joe Bloggs"
          /\ IdAndHobbies

\* C17 witness: a build has written a profile page that was not there
C17_Witness ==
    /\ ProfileWritten /\ run = 1 /\ BuildDone
    /\ ~Exists(fs0, <<"dist", "profile", "index.html">>)

-----------------------------------------------------------------------------
(* Termination *)

\* C18: every run of the build ends: the process exits, and then either a
\* call has failed and its error is reported, or all four pages are written
\* and the asset copy has returned from every copyDir with the assets in
\* place.
C18_BuildTerminates ==
    (pc = "start") ~>
        (/\ pc = "exited"
         /\ err = NoErr => (Len(stdout) = Len(pages) /\ stack = <<>> /\ C7_AssetsMirrored)
         /\ err # NoErr => err.code # "" /\ stderr # <<>>)

\* C18 witness: a run has ended whose asset copy went down into a
\* subdirectory and came back
C18_Witness ==
    /\ pc = "exited" /\ err = NoErr
    /\ \E b \in 1..Len(ops) : ops[b] = Op("copyFile", <<"dist", "public", "styles", "style.css">>, 0)

\* C18 witness: a run has ended on a failing call
C18_WitnessFailed == pc = "exited" /\ err # NoErr /\ LastOp.op = "copyFile"

-----------------------------------------------------------------------------
(* The profile route *)

GetProfile == cmd = "app" /\ req = [method |-> "GET", url |-> <<"profile">>]

\* the profile page is sent for the request
ProfileRendered ==
    GetProfile /\ pc = "responded" /\ res.how = "render" /\ res.view = "profile.ejs"

\* the user the profile page is rendered with has the fallback of every
\* variable that is not set
Fallbacks ==
    /\ ~IsSet("USER_KEY") => res.locals.user.key = DefaultKey
    /\ ~IsSet("USER_NAME") => res.locals.user.name = JoeBloggs
    /\ ~IsSet("USER_ID") => res.locals.user.id = DefaultId

\* C19: a GET /profile never raises the TypeError of splitting an undefined
\* USER_KEY, and the page is rendered with key ["reading", "gaming",
\* "hiking"], name "Joe Bloggs" and id "239482" for whichever of USER_KEY,
\* USER_NAME and USER_ID is not set.
C19_NoErrorForUnsetKey ==
    /\ GetProfile => nextErr.name # "TypeError"
    /\ ProfileRendered => Fallbacks

\* the /profile route of routes/index.js, in both its revisions, does as C19
\* says
Routes_ProfileFallbacks ==
    /\ GetProfile /\ app.router # RoutesComponents => nextErr.name # "TypeError"
    /\ ProfileRendered => Fallbacks

\* a profile page of routes/index.js rendered with all three fallbacks
Routes_Witness ==
    /\ ProfileRendered /\ res.by = "indexRouter"
    /\ DOMAIN env \cap {"USER_KEY", "USER_NAME", "USER_ID"} = {}
    /\ res.locals.user.key = DefaultKey

-----------------------------------------------------------------------------
(* The 404 handler and the error handler *)

\* a request of an application that has the two handlers is answered
Answered == cmd = "app" /\ app.main \in {AppError, AppDebug} /\ pc = "responded"

\* the middleware that serves files and pages
RouteLayers == {"static", "sendIndex", "indexRouter"}

Called(fn) == \E k \in 1..Len(trail) : trail[k] = fn

\* fn passed an error on, which the error handler was called with
Raised(fn) == \E k \in 1..(Len(trail) - 1) : trail[k] = fn /\ trail[k + 1] = "errorHandler"

\* a route or a static file took the request: it answered it or failed on it
HandledByRoute == res.by \in RouteLayers \/ \E fn \in RouteLayers : Raised(fn)

\* what no route or static file handles gets to the 404 handler, whose 404
\* error gets to the error handler
UnhandledIs404 == Answered /\ ~HandledByRoute => Raised("notFound") /\ res.status = 404

\* the answer is the error page, with the status of the error
ErrorPageSent ==
    /\ res.by = "errorHandler" /\ res.how = "render" /\ res.view = "error.ejs"
    /\ res.status = StatusOf(nextErr)
    /\ res.locals.status = Str(ToString(res.status))

\* the status the error handler sets: 404 for the errors of the 404 handler
\* and of res.sendFile, 500 for the error of a view that does not render
StatusSet == IF Raised("indexRouter") THEN 500 ELSE 404

\* the error page did not render: the error of rendering it went on, and
\* the final handler answered with the status the error handler had set
ErrorPageFailed ==
    /\ res.by = "finalhandler"
    /\ nextErr.name \in {"ENOENT", "ReferenceError"}
    /\ res.status = StatusSet

\* C20: a request that no route or static file handles reaches the 404
\* handler and, with a 404 error, the error handler; the error handler
\* always answers with the error page, with status err.status where the
\* error has one and 500 otherwise.
C20_ErrorPageAlways ==
    /\ UnhandledIs404
    /\ Answered /\ Called("errorHandler") => ErrorPageSent

\* C20 as amended: a request that no route or static file handles reaches
\* the 404 handler and, with a 404 error, the error handler; the error
\* handler sets the status err.status where the error has one and 500
\* otherwise and renders the error page, which is the answer whenever it
\* renders (as it does where views/error.ejs is there, its partials being
\* there in every file system above); when it does not, the error of
\* rendering it is passed on and the final handler answers, with the same
\* status.
C20_ErrorPageWhereItRenders ==
    /\ UnhandledIs404
    /\ Answered /\ Called("errorHandler") =>
        /\ ErrorPageSent \/ ErrorPageFailed
        /\ IsFile(fs, viewPath("error.ejs")) => ErrorPageSent

\* C20 witness: a request nothing handles is answered with the error page
\* and status 404, and a page that fails to render with status 500
C20_Witness ==
    /\ Answered /\ ~HandledByRoute /\ ErrorPageSent /\ res.status = 404
    /\ req.url = <<"missing">>

C20_Witness500 == Answered /\ Raised("indexRouter") /\ ErrorPageSent /\ res.status = 500

C20_WitnessFailed == Answered /\ Raised("notFound") /\ ErrorPageFailed

-----------------------------------------------------------------------------
(* The DEBUG switch of the error page *)

\* the error handler of the DEBUG revision has sent the error page
DebugPageSent == cmd = "app" /\ app.main = AppDebug /\ pc = "responded" /\ res.by = "errorHandler"

\* the page shows a stack trace
StackShown == \E k \in 1..Len(res.body) : res.body[k].t = "pre"

\* C21: the error page is given debug = true exactly when DEBUG is the
\* string "true"; for every other value of DEBUG, and with DEBUG not set,
\* debug is false and the page shows no stack trace.
C21_DebugOnlyForTrue ==
    DebugPageSent =>
        /\ res.locals.debug <=> ("DEBUG" \in DOMAIN env /\ env["DEBUG"] = <<"t", "r", "u", "e">>)
        /\ ~res.locals.debug => ~StackShown

\* C21 witness: with DEBUG=TRUE the page is sent with debug false and
\* without the stack trace
C21_Witness ==
    /\ DebugPageSent /\ "DEBUG" \in DOMAIN env /\ env["DEBUG"] = <<"T", "R", "U", "E">>
    /\ ~res.locals.debug /\ ~StackShown

\* with DEBUG=true the stack trace is on the page
C21_WitnessTrue == DebugPageSent /\ res.locals.debug /\ StackShown

-----------------------------------------------------------------------------
(* capitalize *)

Returned == cmd = "capitalize" /\ pc = "returned"

\* the character of the result at k: upper case at the start of the string
\* and after a space, lower case elsewhere
Cased(s, k) ==
    IF k = 1 \/ s[k - 1] = " " THEN toUpperCase(toLowerCase(<<s[k]>>))[1]
    ELSE toLowerCase(<<s[k]>>)[1]

\* C22: capitalize gives "" for null, undefined and ""; for any other
\* string it gives the string lower-cased with the first character of every
\* space-separated word upper-cased, the words in their order with the
\* spaces between them as they were; "joe bloggs" gives "Joe Bloggs" and
\* "mary jane doe" gives "Mary Jane Doe".
C22_CapitalizeWords ==
    Returned =>
        LET str == call.arg.v IN
        /\ call.arg.t \in {"null", "undefined"} => call.result = <<>>
        /\ call.arg.t = "string" =>
            /\ Len(call.result) = Len(str)
            /\ \A k \in 1..Len(str) : call.result[k] = Cased(str, k)
        /\ str = <<"j", "o", "e", " ", "b", "l", "o", "g", "g", "s">>
            => call.result = <<"J", "o", "e", " ", "B", "l", "o", "g", "g", "s">>
        /\ str = <<"m", "a", "r", "y", " ", "j", "a", "n", "e", " ", "d", "o", "e">>
            => call.result = <<"M", "a", "r", "y", " ", "J", "a", "n", "e", " ", "D", "o", "e">>

\* C22 witness: a string of two words in mixed case has come back with
\* both words capitalized
C22_Witness ==
    /\ Returned /\ call.arg = JsString(<<"a", "B", " ", "B">>)
    /\ call.result = <<"A", "b", " ", "B">>

\* capitalize has returned "" for null
C22_WitnessNull == Returned /\ call.arg = Null /\ call.result = <<>>

-----------------------------------------------------------------------------
(* C23: the static tree behind the application (part_002:66-75) *)

\* a GET for one of the four pages answered by the revision of app.js that
\* sends files of dist, the tree built
StaticPageAnswered ==
    /\ cmd = "app" /\ app.main = AppDebug /\ pc = "responded"
    /\ req.method = "GET" /\ req.url \in {Segs(pages[k].folder) : k \in DOMAIN pages}
    /\ \A e \in DistTree : IsFile(fs, e[1])

\* C23: when the app serves the pre-built static tree, a GET for /about is
\* answered with dist/about/index.html, /contact with dist/contact/index.html,
\* /profile with dist/profile/index.html and / with dist/index.html.
C23_StaticTreeServed ==
    StaticPageAnswered =>
        /\ res.how = "sendFile"
        /\ res.locals.file = PathJoin(outputDir \o req.url, "index.html")

\* what app.get("*") does: every GET that express.static of public/ has no
\* file for is answered with dist/index.html, whichever page it asks for
SendIndex_EveryPage ==
    StaticPageAnswered =>
        /\ res.how = "sendFile"
        /\ res.locals.file = PathJoin(outputDir, "index.html")

\* GET /about answered with dist/index.html
SendIndex_Witness ==
    /\ StaticPageAnswered /\ req.url = <<"about">>
    /\ res.body = fs[PathJoin(outputDir, "index.html")].data

-----------------------------------------------------------------------------
(* C24: the names of the profile page (part_000:30-52) *)

\* the profile page sent by the router that capitalizes the name
CapitalizedProfile == ProfileRendered /\ app.router = RoutesCapitalize

\* the first space-separated word of s
FirstWord(s) ==
    LET stop == {k \in 1..Len(s) : s[k] = " "}
    IN IF stop = {} THEN s
       ELSE SubSeq(s, 1, (CHOOSE k \in stop : \A j \in stop : k <= j) - 1)

\* C24: the profile page is rendered with user.name the capitalize of the raw
\* name, user.firstname the capitalize of the first space-separated word of
\* the raw name, and title user.name followed by "'s Profile"; with USER_NAME
\* not set, firstname is "Joe" and name is "Joe Bloggs".
C24_ProfileNames ==
    CapitalizedProfile =>
        LET rawName == IF IsSet("USER_NAME") THEN env["USER_NAME"] ELSE JoeBloggs
            locals == res.locals
        IN /\ locals.user.name = capitalize(JsString(rawName))
           /\ locals.user.firstname = capitalize(JsString(FirstWord(rawName)))
           /\ locals.title = locals.user.name \o <<"'", "s", " ", "P", "r", "o", "f", "i", "l", "e">>
           /\ ~IsSet("USER_NAME") =>
               /\ locals.user.firstname = <<"J", "o", "e">>
               /\ locals.user.name = <<"J", "o", "e", " ", "B", "l", "o", "g", "g", "s">>

\* the page of USER_NAME "mary JANE": Mary Jane, first name Mary
C24_Witness ==
    /\ CapitalizedProfile /\ IsSet("USER_NAME")
    /\ res.locals.user.name = <<"M", "a", "r", "y", " ", "J", "a", "n", "e">>
    /\ res.locals.user.firstname = <<"M", "a", "r", "y">>

\* the page of no USER_NAME
C24_WitnessUnset ==
    /\ CapitalizedProfile /\ ~IsSet("USER_NAME")
    /\ res.locals.user.firstname = <<"J", "o", "e">>

-----------------------------------------------------------------------------
(* C25: the profile entry of the manifest and the /profile route
   (generate-static.js:14-26, part_000:30-52) *)

\* the characters of the pieces the strings of the manifest are written in
Characters(piece) ==
    CASE piece = "Joe Bloggs" -> <<"J", "o", "e", " ", "B", "l", "o", "g", "g", "s">>
      [] piece = "'" -> <<"'">>
      [] piece = "s Profile" -> <<"s", " ", "P", "r", "o", "f", "i", "l", "e">>
      [] piece = "Joe" -> <<"J", "o", "e">>
      [] piece = "239482" -> <<"2", "3", "9", "4", "8", "2">>
      [] piece = "reading" -> <<"r", "e", "a", "d", "i", "n", "g">>
      [] piece = "gaming" -> <<"g", "a", "m", "i", "n", "g">>
      [] piece = "hiking" -> <<"h", "i", "k", "i", "n", "g">>

\* a string of the manifest, character by character
RECURSIVE Spell(_)
Spell(s) == IF s = <<>> THEN <<>> ELSE Characters(Head(s)) \o Spell(Tail(s))

\* the data of a manifest entry is what the route rendered the page with
SameRecord(data, locals) ==
    /\ DOMAIN data = DOMAIN locals
    /\ Spell(data.title) = locals.title
    /\ DOMAIN data.user = DOMAIN locals.user
    /\ Spell(data.user.name) = locals.user.name
    /\ Spell(data.user.firstname) = locals.user.firstname
    /\ Spell(data.user.id) = locals.user.id
    /\ Len(data.user.key) = Len(locals.user.key)
    /\ \A k \in 1..Len(data.user.key) : Spell(data.user.key[k]) = locals.user.key[k]

\* the profile page sent with none of USER_NAME, USER_ID, USER_KEY set
UnsetProfile ==
    /\ CapitalizedProfile
    /\ ~IsSet("USER_NAME") /\ ~IsSet("USER_ID") /\ ~IsSet("USER_KEY")

\* C25: the data record of the profile entry of the static manifest (title
\* and user.name, user.firstname, user.id, user.key) is equal to the record
\* the dynamic /profile route passes to the template when USER_NAME, USER_ID
\* and USER_KEY are all unset.
C25_ManifestIsUnsetProfile ==
    UnsetProfile =>
        /\ SameRecord(pages[4].data, res.locals)
        /\ SameRecord(pagesOutput[4].data, res.locals)

\* the page of the unset environment, three keys on it
C25_Witness ==
    /\ UnsetProfile /\ pages[4].file = "profile.ejs"
    /\ Len(res.locals.user.key) = 3 /\ res.body # <<>>

-----------------------------------------------------------------------------
(* C26: what a template failure leaves of the file system
   (generate-static.js:29-45) *)

\* the build has failed on reading or rendering a template
TemplateFailed == cmd = "generate-static" /\ err # NoErr /\ LastOp.op \in {"readFile", "render"}

\* the page ejs.render gives for entry j
PageOf(j) == Render(fs, fs[TemplateOf(j)].data, RenderData(pages[j])).html

\* the index.html of every entry before k is the page this run rendered
EarlierPagesStay(k) ==
    \A j \in 1..(k - 1) : IsFile(fs, IndexHtml(j)) /\ fs[IndexHtml(j)].data = PageOf(j)

\* C26: when reading or rendering the template of manifest entry k fails,
\* the file system is left unchanged with respect to entry k (neither its
\* directory nor its index.html is created or modified by this run), while
\* the index.html files of entries 1..k-1 written by this run remain in
\* place.
C26_FailedEntryUntouched ==
    TemplateFailed =>
        LET k == LastOp.page IN
        /\ SameAt(fs0, fs, IndexHtml(k))
        /\ SameAt(fs0, fs, Parent(IndexHtml(k)))
        /\ EarlierPagesStay(k)

\* C26 as the code has it: the index.html of entry k is what it was before
\* the run, the directory of an entry that has a folder of its own is what it
\* was before the run, and the index.html of the entries 1..k-1 are the pages
\* this run rendered; the directory of the first entry is the output
\* directory, which is there, made before the loop if it was missing.
C26_FailedEntryUntouchedBelowRoot ==
    TemplateFailed =>
        LET k == LastOp.page IN
        /\ SameAt(fs0, fs, IndexHtml(k))
        /\ IF pages[k].folder # "" THEN SameAt(fs0, fs, Parent(IndexHtml(k)))
           ELSE /\ IsDir(fs, Parent(IndexHtml(k)))
                /\ Exists(fs0, Parent(IndexHtml(k))) => SameAt(fs0, fs, Parent(IndexHtml(k)))
        /\ EarlierPagesStay(k)

\* the template of the third entry failed: contact has no directory, and the
\* pages of the first two entries are in place
C26_Witness ==
    /\ TemplateFailed /\ LastOp.page = 3 /\ pc = "exited"
    /\ ~Exists(fs, Parent(IndexHtml(3)))
    /\ IsFile(fs, IndexHtml(2)) /\ ~Exists(fs0, IndexHtml(2))

\* the template of the first entry failed in an output directory the run made
C26_WitnessRoot ==
    /\ TemplateFailed /\ LastOp.page = 1
    /\ ~Exists(fs0, <<"dist">>) /\ IsDir(fs, <<"dist">>)

-----------------------------------------------------------------------------
(* C27: the revision with output paths on a tree without dist/about
   (generate-static.js:72-111) *)

\* a run of the output-path revision has ended, and dist had no directory
\* about when it began
EndedWithoutAbout ==
    /\ cmd = "generate-static-output" /\ pc \in {"settled", "exited"}
    /\ ~IsDir(fs0, <<"dist", "about">>)

\* C27: the output-path revision creates no page directory, so on an output
\* root without an about directory the run fails at the second page: of the
\* pages only index.html is written, contact.html and profile.html are not
\* written, and the asset copy does not run.
C27_FailsAtSecondPage ==
    EndedWithoutAbout =>
        /\ err # NoErr
        /\ \A b \in 1..Len(ops) :
              /\ ops[b].page <= 2 /\ (ops[b].page = 0 => b = 1)
              /\ ops[b].op = "mkdir" => b = 1
        /\ stack = <<>>
        /\ \A p \in DOMAIN fs \cup DOMAIN fs0 :
              p \notin {<<"dist">>, <<"dist", "index.html">>} => SameAt(fs0, fs, p)
        /\ OpsOf("writeFile", 2) # {} =>
              /\ LastOp = Op("writeFile", <<"dist", "about", "index.html">>, 2)
              /\ err.code \in {"ENOENT", "ENOTDIR"}
              /\ IsFile(fs, <<"dist", "index.html">>)
              /\ fs[<<"dist", "index.html">>].data
                   = Render(fs, fs[<<"src", "views", "index.ejs">>].data,
                            RenderData(pagesOutput[1])).html
              /\ OpsOf("writeFile", 1) # {}

\* the write of about/index.html failed on a dist the run made, index.html
\* written before it
C27_Witness ==
    /\ EndedWithoutAbout /\ pc = "exited" /\ ~Exists(fs0, <<"dist">>)
    /\ LastOp = Op("writeFile", <<"dist", "about", "index.html">>, 2)
    /\ err.code = "ENOENT"
    /\ IsFile(fs, <<"dist", "index.html">>)
    /\ IsFile(fs, <<"src", "views", "contact.ejs">>)
    /\ ~Exists(fs, <<"dist", "contact.html">>)

-----------------------------------------------------------------------------
(* C28: the ICO revision when encode throws
   (generate-favicons (error).js:28-70) *)

\* encode of ico-endec threw in this run
EncodeThrew == cmd = "generate-favicons-error" /\ err.code = "EncoderError"

\* C28: in the ICO revision of the icon script the .ico target is first in
\* the list, so if encoding the ICO buffer throws, the run ends with no icon
\* file written at all: neither favicon.ico nor apple-touch-icon.png nor
\* icon-192.png.
C28_EncodeFailureWritesNothing ==
    /\ EndsWithIco(icoSizes[1].output)
    /\ EncodeThrew =>
        /\ pc \in {"rejected", "settled", "exited"}
        /\ LastOp = Op("encode", <<"src", "public", "icons", "temp", "favicon.ico">>, 1)
        /\ \A b \in 1..Len(ops) : ops[b].op \notin {"writeFile", "toFile"}
        /\ \A n \in {"favicon.ico", "apple-touch-icon.png", "icon-192.png"} :
              SameAt(fs0, fs, <<"src", "public", "icons", "temp", n>>)
        /\ \A line \in Range(stdout) : line[1] # "Generated"

\* the run is over, encode having thrown, and icons/temp holds no icon
C28_Witness ==
    /\ EncodeThrew /\ pc = "exited" /\ run = 1
    /\ IsDir(fs, <<"src", "public", "icons", "temp">>)
    /\ \A n \in {"favicon.ico", "apple-touch-icon.png", "icon-192.png"} :
          ~Exists(fs, <<"src", "public", "icons", "temp", n>>)

-----------------------------------------------------------------------------
(* C29: the key list of the /profile route
   (part_000:38-45, routes/index.js:104-111) *)

\* the profile page sent by router.get("/profile") of routes/index.js
RouterProfile == ProfileRendered /\ res.by = "indexRouter"

\* the number of commas in s
Commas(s) == Cardinality({k \in 1..Len(s) : s[k] = ","})

\* C29: in the /profile route the key list is USER_KEY split on every comma
\* with no trimming and no removal of empty items, so joining the list with
\* commas gives back USER_KEY; an empty-string USER_KEY is treated like an
\* unset one and yields the default list.
C29_KeyListRoundTrip ==
    RouterProfile =>
        LET key == res.locals.user.key IN
        IF IsSet("USER_KEY") /\ env["USER_KEY"] # <<>>
        THEN /\ join(key, ",") = env["USER_KEY"]
             /\ Len(key) = Commas(env["USER_KEY"]) + 1
             /\ \A k \in 1..Len(key) : Commas(key[k]) = 0
        ELSE key = <<<<"r", "e", "a", "d", "i", "n", "g">>, <<"g", "a", "m", "i", "n", "g">>,
                     <<"h", "i", "k", "i", "n", "g">>>>

\* USER_KEY "a,, b": three items, the second empty, the third with its space
C29_Witness ==
    /\ RouterProfile /\ IsSet("USER_KEY")
    /\ res.locals.user.key = <<<<"a">>, <<>>, <<" ", "b">>>>

\* USER_KEY set to the empty string: the default list
C29_WitnessEmpty ==
    /\ RouterProfile /\ IsSet("USER_KEY") /\ env["USER_KEY"] = <<>>
    /\ Len(res.locals.user.key) = 3

-----------------------------------------------------------------------------
(* C30: the name the test script greets (test/index.js:9-33) *)

\* process.argv.slice(2)
Args == SubSeq(argv, 3, Len(argv))

\* there is a first argument and it is not the empty string
ArgGiven == Len(Args) >= 1 /\ Args[1] # <<>>

\* the script has printed a line that begins with text
Printed(text) == \E k \in 1..Len(stdout) : stdout[k][1] = text

\* the script has got past the choice of the name
Named == cmd = "test" /\ (pc = "named" \/ (pc = "exited" /\ err = NoErr))

\* C30: the test script uses the first command-line argument as the name
\* when it is non-empty and reads USER_NAME only otherwise, taking its first
\* space-separated word; it reaches "Process terminated" and exit status 0
\* whenever an argument is given or USER_NAME is set, and throws before
\* printing "Process started" when neither is available.
C30_NameFromArgumentOrEnv ==
    /\ Named =>
        /\ ArgGiven => call.arg.v = Args[1]
        /\ ~ArgGiven => IsSet("USER_NAME") /\ call.arg.v = FirstWord(env["USER_NAME"])
    /\ cmd = "test" /\ pc = "exited" =>
        IF ArgGiven \/ IsSet("USER_NAME")
        THEN /\ exitCode = 0 /\ err = NoErr /\ stderr = <<>>
             /\ stdout[Len(stdout)] = <<"Process terminated">>
             /\ Printed("Process started") /\ Printed("Hello")
        ELSE /\ exitCode # 0 /\ err.code = "TypeError"
             /\ Len(stderr) = 1
             /\ ~Printed("Process started") /\ ~Printed("Process terminated")

\* an argument and USER_NAME both there: the greeting is for the argument
C30_Witness ==
    /\ cmd = "test" /\ pc = "exited" /\ exitCode = 0
    /\ ArgGiven /\ IsSet("USER_NAME") /\ env["USER_NAME"] # <<>>
    /\ call.arg.v = <<"a", "n", "n">> /\ call.result = <<"A", "n", "n">>

\* no argument, USER_NAME "mary JANE": the greeting is for Mary
C30_WitnessEnv ==
    /\ cmd = "test" /\ pc = "exited" /\ exitCode = 0 /\ Args = <<>>
    /\ call.arg.v = <<"m", "a", "r", "y">> /\ call.result = <<"M", "a", "r", "y">>

\* an empty argument and no USER_NAME: the TypeError, status 1
C30_WitnessThrown ==
    /\ cmd = "test" /\ pc = "exited" /\ exitCode = 1
    /\ Args = <<<<>>>> /\ ~IsSet("USER_NAME")
    /\ Printed("argv")

=============================================================================
